---------------------------- MODULE Spec2Model ----------------------------
(***************************************************************************)
(* Zambezi: the indexing driver (src/src/driver/indexer.c), the segment    *)
(* pool (src/src/shared/SegmentPool.h) and the parts of the retrieval      *)
(* driver that read the index, as one state machine.                       *)
(*                                                                         *)
(* Scaling.  TLC integers are 32 bits wide, so the C widths are halved:    *)
(* a pool word offset is 16 bits (MAX_INT_VALUE = 0xFFFF for 0xFFFFFFFF)   *)
(* and a segment pointer is 32 bits, segment in the upper half (PTR_SHIFT  *)
(* = 2^16 for the shift by 32).  BLOCK_SIZE (128 in pfordelta/opt_p4.h) is *)
(* a bound of the model: the code uses it only in /, %, * and comparisons. *)
(* C arrays are 0-based; sequences here are 1-based and are read and       *)
(* written through At and Put.                                             *)
(***************************************************************************)
EXTENDS Integers, Sequences, FiniteSets, TLC

\* ----------------------------------------------------------------- bounds
BLOCK_SIZE == 2
MaxDocs == 6

\* ------------------------------------------------------ program constants
MAX_INT_VALUE == 65535
PTR_SHIFT == 65536
UNDEFINED_POINTER == -1
UNKNOWN_SEGMENT == -1
NUMBER_OF_POOLS == 4
EXPANSION_RATE == 2
NONPOSITIONAL == 0
TFONLY == 1
POSITIONAL == 2
\* BM25 parameters k1 = BM25_K1_TENTHS / 10 and b = BM25_B_TENTHS / 10
BM25_K1_TENTHS == 9
BM25_B_TENTHS == 4

\* the vocabulary of the input files and the term ids it can produce
Terms == {"a", "b"}
TermIds == 0 .. (Cardinality(Terms) - 1)
DocIds == 0 .. (MaxDocs + 1)

\* ---------------------------------------------------------------- arrays
NULL == << >>
At(s, i) == s[i + 1]
Put(s, i, v) == [s EXCEPT ![i + 1] = v]
Zeros(n) == [i \in 1 .. n |-> 0]
\* &s[from], n elements
Slice(s, from, n) == [i \in 1 .. n |-> s[from + i]]
\* realloc(s, n) followed by memset(s + keep, 0, n - keep)
Realloc(s, keep, n) == [i \in 1 .. n |-> IF i <= keep /\ i <= Len(s) THEN s[i] ELSE 0]
Min(a, b) == IF a <= b THEN a ELSE b
RECURSIVE Sum(_)
Sum(s) == IF s = << >> THEN 0 ELSE Head(s) + Sum(Tail(s))

\* ------------------------------------------------------- segment pointers
ENCODE_POINTER(S, O) ==
  LET hi == S % PTR_SHIFT
      lo == O % PTR_SHIFT
  IN  IF hi >= PTR_SHIFT \div 2
        THEN (hi - PTR_SHIFT) * PTR_SHIFT + lo
        ELSE hi * PTR_SHIFT + lo
DECODE_SEGMENT(P) == P \div PTR_SHIFT
DECODE_OFFSET(P) == P % PTR_SHIFT

\* LESS_THAN with the comparisons of LESS_THAN_EQUAL
LESS_THAN_OrEqual(X, Y, R) == IF R = 0 THEN X <= Y ELSE X >= Y

LESS_THAN(X, Y, R) == IF R = 0 THEN X < Y ELSE X > Y

\* --------------------------------------------------------------- the pool
\* pool->pool[s][o]; the arenas are calloc'ed, an unwritten word reads 0
Word(pool, s, o) == IF <<s, o>> \in DOMAIN pool.pool THEN pool.pool[<<s, o>>] ELSE 0
\* words[s][o .. o + Len(seq) - 1] = seq
Store(words, s, o, seq) ==
  LET new == {<<s, o + i>> : i \in 0 .. (Len(seq) - 1)}
  IN  [a \in (DOMAIN words) \cup new |->
         IF a \in new THEN seq[a[2] - o + 1] ELSE words[a]]
\* the n words at pool->pool[s][o ..]
Words(pool, s, o, n) == [i \in 1 .. n |-> Word(pool, s, o + i - 1)]

createSegmentPool(numberOfPools, reverse, bloomEnabled, nbHash, bitsPerElement) ==
  [numberOfPools |-> numberOfPools, segment |-> 0, offset |-> 0,
   reverse |-> reverse, pool |-> << >>, bloomEnabled |-> bloomEnabled,
   nbHash |-> nbHash, bitsPerElement |-> bitsPerElement]

\* ------------------------------------------------------------- the codec
\* OPT4(data, len, block, delta): a flag word, then one word per integer; with
\* delta the gaps between neighbours in the direction the data is stored in.
OPT4(data, len, delta) ==
  LET gaps == IF delta = 0 THEN [i \in 1 .. len |-> data[i]]
              ELSE IF len >= 2 /\ data[1] > data[len]
                THEN [i \in 1 .. len |-> IF i = len THEN data[i] ELSE data[i] - data[i + 1]]
                ELSE [i \in 1 .. len |-> IF i = 1 THEN data[i] ELSE data[i] - data[i - 1]]
  IN  <<len>> \o gaps

RECURSIVE PrefixSums(_, _)
PrefixSums(g, acc) ==
  IF g = << >> THEN << >> ELSE <<acc + Head(g)>> \o PrefixSums(Tail(g), acc + Head(g))

RECURSIVE SuffixSums(_)
SuffixSums(g) ==
  IF g = << >> THEN << >>
  ELSE LET rest == SuffixSums(Tail(g))
       IN  <<Head(g) + (IF rest = << >> THEN 0 ELSE Head(rest))>> \o rest

\* detailed_p4_decode(out, block, aux, delta, reverse): the deltas are summed
\* in the stored direction
detailed_p4_decode(block, delta, reverse) ==
  LET gaps == Tail(block)
  IN  IF delta = 0 THEN gaps
      ELSE IF reverse # 0 THEN SuffixSums(gaps) ELSE PrefixSums(gaps, 0)

\* ------------------------------------------------------ the Bloom filter
computeBloomFilterLength(len, bitsPerElement) == (bitsPerElement * len + 31) \div 32
BloomHash(k, value) == value * (2 * k + 3) + 5 * k + 1
\* the bit positions insertIntoBloomFilter sets for one value
BloomBits(filterSize, nbHash, value) ==
  {BloomHash(k, value) % (filterSize * 32) : k \in 0 .. (nbHash - 1)}
RECURSIVE BitsToInt(_, _)
BitsToInt(S, b) ==
  IF b < 0 THEN 0 ELSE (IF b \in S THEN 2 ^ b ELSE 0) + BitsToInt(S, b - 1)
\* a 32-bit word with the bits of S set, as the signed int the pool stores
WordOfBits(S) ==
  IF 31 \in S THEN (-2147483647 - 1) + BitsToInt(S, 30) ELSE BitsToInt(S, 30)
BitOfWord(w, b) ==
  IF b = 31 THEN w < 0
  ELSE LET u == IF w < 0 THEN (w + 2147483647) + 1 ELSE w
       IN  (u \div (2 ^ b)) % 2 = 1
\* calloc(filterSize) and insertIntoBloomFilter of data[0 .. len-1]
BuildFilter(data, len, filterSize, nbHash) ==
  LET bits == UNION {BloomBits(filterSize, nbHash, data[i]) : i \in 1 .. len}
  IN  [j \in 1 .. filterSize |->
         WordOfBits({b \in 0 .. 31 : (32 * (j - 1) + b) \in bits})]
containsBloomFilter(filter, filterSize, nbHash, value) ==
  \A p \in BloomBits(filterSize, nbHash, value) :
     BitOfWord(filter[(p \div 32) + 1], p % 32)

\* ------------------------------------------------------------ the append
\* ReverseInPlace with a loop that never swaps
ReverseInPlace_Unswapped(data, len) == data

\* the in-place swap loop for(i = 0; i < len/2; i++) of data[0 .. len-1]
ReverseInPlace(data, len) == [i \in 1 .. len |-> data[len + 1 - i]]

\* Rolls with the exact fit counted as a miss
Rolls_AtExactFit(reqspace, offset) == reqspace >= MAX_INT_VALUE - offset
\* if(reqspace > (MAX_INT_VALUE - pool->offset)): the block does not fit in
\* what is left of the current arena
Rolls(reqspace, offset) == reqspace > MAX_INT_VALUE - offset

\* the header with a reqspace that leaves out the slot of the filter size
BlockHeader_NoFilterSlot(reqspace, maxDocId, bloomBase, len, csize) ==
  <<reqspace - 1, UNKNOWN_SEGMENT, 0, maxDocId, bloomBase, len, csize>>

\* the words of the new block's header
BlockHeader(reqspace, maxDocId, bloomBase, len, csize) ==
  <<reqspace, UNKNOWN_SEGMENT, 0, maxDocId, bloomBase, len, csize>>

\* LinkBlock writing the previous block's next words in reverse mode as well
LinkBlock_BothWays(words, reverse, lastSegment, lastOffset, segment, offset) ==
  IF lastSegment >= 0
    THEN IF reverse = 0
           THEN Store(words, lastSegment, lastOffset + 1, <<segment, offset>>)
           ELSE Store(Store(words, segment, offset + 1, <<lastSegment, lastOffset>>),
                      lastSegment, lastOffset + 1, <<segment, offset>>)
    ELSE words

\* LinkBlock without the reverse branch: the new block is linked only forwards
LinkBlock_ForwardOnly(words, reverse, lastSegment, lastOffset, segment, offset) ==
  IF lastSegment >= 0 /\ reverse = 0
    THEN Store(words, lastSegment, lastOffset + 1, <<segment, offset>>)
    ELSE words

\* if(lastSegment >= 0): link the new block at (segment, offset) to the previous one
LinkBlock(words, reverse, lastSegment, lastOffset, segment, offset) ==
  IF lastSegment >= 0
    THEN IF reverse = 0
           THEN Store(words, lastSegment, lastOffset + 1, <<segment, offset>>)
           ELSE Store(words, segment, offset + 1, <<lastSegment, lastOffset>>)
    ELSE words

\* MaxDocIdOf without the reverse branch: always the last docid
MaxDocIdOf_Last(reverse, data, len) == At(data, len - 1)

\* MaxDocIdOf taking the index of the element for the element
MaxDocIdOf_Index(reverse, data, len) == IF reverse # 0 THEN 0 ELSE len - 1

MaxDocIdOf(reverse, data, len) == IF reverse # 0 THEN At(data, 0) ELSE At(data, len - 1)

compressAndAddNonPositional(pool, data, len, tailPointer) ==
  LET lastSegment == IF tailPointer # UNDEFINED_POINTER THEN DECODE_SEGMENT(tailPointer) ELSE -1
      lastOffset == IF tailPointer # UNDEFINED_POINTER THEN DECODE_OFFSET(tailPointer) ELSE 0
      filterSize == IF pool.bloomEnabled # 0
                      THEN computeBloomFilterLength(len, pool.bitsPerElement) ELSE 0
      filter == BuildFilter(data, len, filterSize, pool.nbHash)
      maxDocId == MaxDocIdOf(pool.reverse, data, len)
      rdata == IF pool.reverse # 0 THEN ReverseInPlace(data, len) ELSE data
      block == OPT4(rdata, len, 1)
      csize == Len(block)
      reqspace == csize + filterSize + 8
      roll == Rolls(reqspace, pool.offset)
      segment == IF roll THEN pool.segment + 1 ELSE pool.segment
      offset == IF roll THEN 0 ELSE pool.offset
      w1 == Store(pool.pool, segment, offset,
                  BlockHeader(reqspace, maxDocId, csize + 7, len, csize) \o block)
      w2 == IF pool.bloomEnabled # 0
              THEN Store(w1, segment, offset + csize + 7, <<filterSize>> \o filter)
              ELSE w1
      w3 == LinkBlock(w2, pool.reverse, lastSegment, lastOffset, segment, offset)
  IN  [pool |-> [pool EXCEPT !.segment = segment, !.offset = offset + reqspace, !.pool = w3],
       pointer |-> ENCODE_POINTER(segment, offset)]

compressAndAddTfOnly(pool, data, tf, len, tailPointer) ==
  LET lastSegment == IF tailPointer # UNDEFINED_POINTER THEN DECODE_SEGMENT(tailPointer) ELSE -1
      lastOffset == IF tailPointer # UNDEFINED_POINTER THEN DECODE_OFFSET(tailPointer) ELSE 0
      filterSize == IF pool.bloomEnabled # 0
                      THEN computeBloomFilterLength(len, pool.bitsPerElement) ELSE 0
      filter == BuildFilter(data, len, filterSize, pool.nbHash)
      maxDocId == MaxDocIdOf(pool.reverse, data, len)
      rdata == IF pool.reverse # 0 THEN ReverseInPlace(data, len) ELSE data
      rtf == IF pool.reverse # 0 THEN ReverseInPlace(tf, len) ELSE tf
      block == OPT4(rdata, len, 1)
      tfblock == OPT4(rtf, len, 0)
      csize == Len(block)
      tfcsize == Len(tfblock)
      reqspace == csize + tfcsize + filterSize + 9
      roll == Rolls(reqspace, pool.offset)
      segment == IF roll THEN pool.segment + 1 ELSE pool.segment
      offset == IF roll THEN 0 ELSE pool.offset
      w1 == Store(pool.pool, segment, offset,
                  BlockHeader(reqspace, maxDocId, csize + tfcsize + 8, len, csize)
                    \o block \o <<tfcsize>> \o tfblock)
      w2 == IF pool.bloomEnabled # 0
              THEN Store(w1, segment, offset + csize + tfcsize + 8, <<filterSize>> \o filter)
              ELSE w1
      w3 == LinkBlock(w2, pool.reverse, lastSegment, lastOffset, segment, offset)
  IN  [pool |-> [pool EXCEPT !.segment = segment, !.offset = offset + reqspace, !.pool = w3],
       pointer |-> ENCODE_POINTER(segment, offset)]

\* rpositions: the documents from last to first, each document's positions in
\* their original order (tf is read before it is reversed)
RECURSIVE ReversePositions(_, _, _, _)
ReversePositions(positions, tf, i, curPos) ==
  IF i < 0 THEN << >>
  ELSE Slice(positions, curPos - At(tf, i), At(tf, i))
         \o ReversePositions(positions, tf, i - 1, curPos - At(tf, i))

\* pblock: the plen positions cut into sub-blocks of BLOCK_SIZE, each one
\* encoded without delta and prefixed by its compressed word count
RECURSIVE CompressPositions(_, _)
CompressPositions(positions, plen) ==
  IF plen <= 0 THEN << >>
  ELSE LET n == Min(plen, BLOCK_SIZE)
           sub == OPT4(Slice(positions, 0, n), n, 0)
       IN  <<Len(sub)>> \o sub
             \o CompressPositions(Slice(positions, n, plen - n), plen - n)

compressAndAddPositional(pool, data, tf, positions, len, plen, tailPointer) ==
  LET lastSegment == IF tailPointer # UNDEFINED_POINTER THEN DECODE_SEGMENT(tailPointer) ELSE -1
      lastOffset == IF tailPointer # UNDEFINED_POINTER THEN DECODE_OFFSET(tailPointer) ELSE 0
      filterSize == IF pool.bloomEnabled # 0
                      THEN computeBloomFilterLength(len, pool.bitsPerElement) ELSE 0
      filter == BuildFilter(data, len, filterSize, pool.nbHash)
      maxDocId == MaxDocIdOf(pool.reverse, data, len)
      rpositions == IF pool.reverse # 0
                      THEN ReversePositions(positions, tf, len - 1, plen)
                      ELSE Slice(positions, 0, plen)
      rdata == IF pool.reverse # 0 THEN ReverseInPlace(data, len) ELSE data
      rtf == IF pool.reverse # 0 THEN ReverseInPlace(tf, len) ELSE tf
      block == OPT4(rdata, len, 1)
      tfblock == OPT4(rtf, len, 0)
      csize == Len(block)
      tfcsize == Len(tfblock)
      pblock == CompressPositions(rpositions, plen)
      pcsize == Len(pblock)
      nsub == (plen \div BLOCK_SIZE) + (IF plen % BLOCK_SIZE > 0 THEN 1 ELSE 0)
      reqspace == csize + tfcsize + pcsize + filterSize + 11
      roll == Rolls(reqspace, pool.offset)
      segment == IF roll THEN pool.segment + 1 ELSE pool.segment
      offset == IF roll THEN 0 ELSE pool.offset
      w1 == Store(pool.pool, segment, offset,
                  BlockHeader(reqspace, maxDocId, csize + tfcsize + pcsize + 10, len, csize)
                    \o block \o <<tfcsize>> \o tfblock \o <<plen, nsub>> \o pblock)
      w2 == IF pool.bloomEnabled # 0
              THEN Store(w1, segment, offset + csize + tfcsize + pcsize + 10,
                         <<filterSize>> \o filter)
              ELSE w1
      w3 == LinkBlock(w2, pool.reverse, lastSegment, lastOffset, segment, offset)
  IN  [pool |-> [pool EXCEPT !.segment = segment, !.offset = offset + reqspace, !.pool = w3],
       pointer |-> ENCODE_POINTER(segment, offset)]

\* ------------------------------------------------- navigation and decode
nextPointer(pool, pointer) ==
  IF pointer = UNDEFINED_POINTER THEN UNDEFINED_POINTER
  ELSE LET pSegment == DECODE_SEGMENT(pointer)
           pOffset == DECODE_OFFSET(pointer)
       IN  IF Word(pool, pSegment, pOffset + 1) = UNKNOWN_SEGMENT
             THEN UNDEFINED_POINTER
             ELSE ENCODE_POINTER(Word(pool, pSegment, pOffset + 1),
                                 Word(pool, pSegment, pOffset + 2))

\* the first len entries of outBlock after decompressDocidBlock, len its result
decompressDocidBlock(pool, pointer) ==
  LET pSegment == DECODE_SEGMENT(pointer)
      pOffset == DECODE_OFFSET(pointer)
      len == Word(pool, pSegment, pOffset + 5)
      csize == Word(pool, pSegment, pOffset + 6)
      out == detailed_p4_decode(Words(pool, pSegment, pOffset + 7, csize), 1, pool.reverse)
  IN  Slice(out, 0, len)

decompressTfBlock(pool, pointer) ==
  LET pSegment == DECODE_SEGMENT(pointer)
      pOffset == DECODE_OFFSET(pointer)
      len == Word(pool, pSegment, pOffset + 5)
      csize == Word(pool, pSegment, pOffset + 6)
      tfcsize == Word(pool, pSegment, pOffset + csize + 7)
      out == detailed_p4_decode(Words(pool, pSegment, pOffset + csize + 8, tfcsize),
                                0, pool.reverse)
  IN  Slice(out, 0, len)

\* SegmentPool.h 602-604: pos after n sub-blocks of positions
RECURSIVE SkipSubBlocks(_, _, _, _)
SkipSubBlocks(pool, pSegment, pos, n) ==
  IF n <= 0 THEN pos
  ELSE SkipSubBlocks(pool, pSegment, pos + Word(pool, pSegment, pos) + 1, n - 1)

\* CopyPositions with rindex left where it is after the first sub-block
RECURSIVE CopyPositions_RindexKept(_, _, _, _, _, _, _)
CopyPositions_RindexKept(pool, pSegment, pos, i, lnb, rindex, left) ==
  IF i > lnb THEN << >>
  ELSE LET tocopy == IF rindex + left > BLOCK_SIZE THEN BLOCK_SIZE - rindex ELSE left
           temp == detailed_p4_decode(
                     Words(pool, pSegment, pos + 1, Word(pool, pSegment, pos)), 0, pool.reverse)
                     \o Zeros(2 * BLOCK_SIZE)
       IN  Slice(temp, rindex, tocopy)
             \o CopyPositions_RindexKept(pool, pSegment, pos + Word(pool, pSegment, pos) + 1,
                              i + 1, lnb, rindex, left - tocopy)

\* SegmentPool.h 606-621: for(i = nb; i <= lnb; i++), the entries copied to out
RECURSIVE CopyPositions(_, _, _, _, _, _, _)
CopyPositions(pool, pSegment, pos, i, lnb, rindex, left) ==
  IF i > lnb THEN << >>
  ELSE LET tocopy == IF rindex + left > BLOCK_SIZE THEN BLOCK_SIZE - rindex ELSE left
           temp == detailed_p4_decode(
                     Words(pool, pSegment, pos + 1, Word(pool, pSegment, pos)), 0, pool.reverse)
                     \o Zeros(2 * BLOCK_SIZE)
       IN  Slice(temp, rindex, tocopy)
             \o CopyPositions(pool, pSegment, pos + Word(pool, pSegment, pos) + 1,
                              i + 1, lnb, 0, left - tocopy)

\* decompressPositions(pool, tf, index, pointer, out): the first tf[index]
\* entries of out; the division of lnb truncates towards zero
decompressPositions(pool, tf, index, pointer) ==
  LET pSegment == DECODE_SEGMENT(pointer)
      pOffset == DECODE_OFFSET(pointer)
      csize == Word(pool, pSegment, pOffset + 6)
      tfsize == Word(pool, pSegment, pOffset + 7 + csize)
      before == Sum(Slice(tf, 0, index))
      last == before + At(tf, index) - 1
      nb == before \div BLOCK_SIZE
      lnb == IF last < 0 THEN 0 ELSE last \div BLOCK_SIZE
  IN  PrefixSums(CopyPositions(pool, pSegment,
                               SkipSubBlocks(pool, pSegment, pOffset + csize + tfsize + 10, nb),
                               nb, lnb, before % BLOCK_SIZE, At(tf, index)), 0)

\* containsDocid(pool, docid, &pointer): its result and the pointer it leaves
RECURSIVE ContainsDocidFrom(_, _, _, _, _)
ContainsDocidFrom(pool, docid, pointer, pSegment, pOffset) ==
  IF LESS_THAN(Word(pool, pSegment, pOffset + 3), docid, pool.reverse)
    THEN LET nSegment == Word(pool, pSegment, pOffset + 1)
             nOffset == Word(pool, pSegment, pOffset + 2)
         IN  IF nSegment = UNKNOWN_SEGMENT
               THEN [result |-> FALSE, pointer |-> UNDEFINED_POINTER]
               ELSE ContainsDocidFrom(pool, docid, pointer, nSegment, nOffset)
    ELSE IF Word(pool, pSegment, pOffset + 3) = docid
      THEN [result |-> TRUE, pointer |-> pointer]
      ELSE LET bloomOffset == Word(pool, pSegment, pOffset + 4)
               filterSize == Word(pool, pSegment, pOffset + bloomOffset)
           IN  [result |-> containsBloomFilter(
                             Words(pool, pSegment, pOffset + bloomOffset + 1, filterSize),
                             filterSize, pool.nbHash, docid),
                pointer |-> ENCODE_POINTER(pSegment, pOffset)]

containsDocid(pool, docid, pointer) ==
  IF pointer = UNDEFINED_POINTER
    THEN [result |-> FALSE, pointer |-> pointer]
    ELSE ContainsDocidFrom(pool, docid, pointer,
                           DECODE_SEGMENT(pointer), DECODE_OFFSET(pointer))

\* -------------------------------------------------- dictionary and scorer
\* setTermId(dictionary, term, id): the dictionary afterwards
setTermId(dictionary, term, id) ==
  IF term \in DOMAIN dictionary THEN dictionary ELSE dictionary @@ (term :> id)
getTermId(dictionary, term) == IF term \in DOMAIN dictionary THEN dictionary[term] ELSE -1

\* (BM25 denominator of (tf, docLen)) * 100 * totalDocLen, for avgDocLen =
\* totalDocLen / totalDocs; positive whenever totalDocLen > 0
Bm25Denominator(tf, docLen, totalDocLen, totalDocs) ==
  BM25_K1_TENTHS * ((10 - BM25_B_TENTHS) * totalDocLen + BM25_B_TENTHS * docLen * totalDocs)
    + 100 * tf * totalDocLen
\* _default_bm25tf(tf1, dl1, avg) > _default_bm25tf(tf2, dl2, avg), in exact arithmetic
Bm25TfGreater(tf1, dl1, tf2, dl2, totalDocLen, totalDocs) ==
  tf1 * Bm25Denominator(tf2, dl2, totalDocLen, totalDocs)
    > tf2 * Bm25Denominator(tf1, dl1, totalDocLen, totalDocs)

\* ------------------------------------------------------------ the indexer
\* ------------------------------------------------------- the index file
\* sizeof(int) and sizeof(unsigned int)
SizeofInt == 4
\* the file is the 4-byte words fwrite put into it, by the byte they start at;
\* the words of an arena that were never stored to are written as the zeros
\* calloc left and are not listed
Fread(f, at) == IF at \in DOMAIN f.words THEN f.words[at] ELSE 0

\* WrittenWords without the loop over the full arenas
WrittenWords_LastArenaOnly(pool) ==
  {a \in DOMAIN pool.pool : a[1] = pool.segment /\ a[2] < pool.offset}
\* SegmentPool.h 52-56: the words of the pool that go to the file
WrittenWords(pool) ==
  {a \in DOMAIN pool.pool :
     \/ a[1] < pool.segment
     \/ a[1] = pool.segment /\ a[2] < pool.offset}

\* SegmentPool.h 44-57: six header words, the arenas below `segment` whole,
\* then the first `offset` words of arena `segment`
writeSegmentPool(pool) ==
  LET header == <<pool.segment, pool.offset, pool.reverse, pool.bloomEnabled,
                  pool.nbHash, pool.bitsPerElement>>
      arenasAt == Len(header) * SizeofInt
      written == WrittenWords(pool)
      headerAt == {(i - 1) * SizeofInt : i \in 1 .. Len(header)}
      arenaAt == {arenasAt + (a[1] * MAX_INT_VALUE + a[2]) * SizeofInt : a \in written}
  IN  [size |-> arenasAt + (pool.segment * MAX_INT_VALUE + pool.offset) * SizeofInt,
       words |-> [at \in headerAt \cup arenaAt |->
                    IF at < arenasAt THEN header[(at \div SizeofInt) + 1]
                    ELSE pool.pool[<<((at - arenasAt) \div SizeofInt) \div MAX_INT_VALUE,
                                     ((at - arenasAt) \div SizeofInt) % MAX_INT_VALUE>>]]]

\* SegmentPool.h 59-77: the six header words, `segment` arenas of
\* MAX_INT_VALUE words and `offset` words of the last arena, read one after
\* the other; numberOfPools is left as malloc returned it
readSegmentPool(f, numberOfPools) ==
  LET segment == Fread(f, 0)
      offset == Fread(f, SizeofInt)
      arenasAt == 6 * SizeofInt
      read == {at \in DOMAIN f.words :
                 /\ at >= arenasAt
                 /\ at < arenasAt + (segment * MAX_INT_VALUE + offset) * SizeofInt}
  IN  [numberOfPools |-> numberOfPools, segment |-> segment, offset |-> offset,
       reverse |-> Fread(f, 2 * SizeofInt),
       pool |-> [a \in {<<((at - arenasAt) \div SizeofInt) \div MAX_INT_VALUE,
                          ((at - arenasAt) \div SizeofInt) % MAX_INT_VALUE>> : at \in read} |->
                   f.words[arenasAt + (a[1] * MAX_INT_VALUE + a[2]) * SizeofInt]],
       bloomEnabled |-> Fread(f, 3 * SizeofInt),
       nbHash |-> Fread(f, 4 * SizeofInt),
       bitsPerElement |-> Fread(f, 5 * SizeofInt)]

\* SegmentPool.h 121-128: the arenas destroySegmentPool frees,
\* pool->pool[0 .. numberOfPools-1]
destroySegmentPool(pool) == 0 .. (pool.numberOfPools - 1)

\* SegmentPool.h 82-89: the third word of the file
readReverseFlag(f) == Fread(f, 2 * SizeofInt)

\* SegmentPool.h 717-727: the fourth, fifth and sixth word of the file
readBloomStats(f) ==
  [bloomEnabled |-> Fread(f, 3 * SizeofInt), nbHash |-> Fread(f, 4 * SizeofInt),
   bitsPerElement |-> Fread(f, 5 * SizeofInt)]

\* readPostingsBody with the previous copy's next words left as read from the
\* file
RelinkCopy_Skipped(words, ppSegment, ppOffset, segment, offset) == words
\* SegmentPool.h 692-695: the previous copy is linked to the copy just made
RelinkCopy(words, ppSegment, ppOffset, segment, offset) ==
  IF ppSegment # -1
    THEN Store(words, ppSegment, ppOffset + 1, <<segment, offset>>)
    ELSE words

\* SegmentPool.h 677-707: the body of the while loop; c holds the pool and
\* the locals pSegment, pOffset, sSegment, sOffset, ppSegment, ppOffset
readPostingsBody(c, f) ==
  LET pos == ((c.pSegment * MAX_INT_VALUE) + c.pOffset) * 4 + 24
      reqspace == Fread(f, pos)
      roll == Rolls(reqspace, c.pool.offset)
      segment == IF roll THEN c.pool.segment + 1 ELSE c.pool.segment
      offset == IF roll THEN 0 ELSE c.pool.offset
      w1 == Store(c.pool.pool, segment, offset,
                  <<reqspace>> \o [i \in 1 .. (reqspace - 1) |->
                                     Fread(f, pos + SizeofInt * i)])
  IN  [pool |-> [c.pool EXCEPT !.segment = segment, !.offset = offset + reqspace,
                               !.pool = RelinkCopy(w1, c.ppSegment, c.ppOffset,
                                                   segment, offset)],
       pSegment |-> w1[<<segment, offset + 1>>],
       pOffset |-> w1[<<segment, offset + 2>>],
       sSegment |-> IF c.sSegment = -1 THEN segment ELSE c.sSegment,
       sOffset |-> IF c.sSegment = -1 THEN offset ELSE c.sOffset,
       ppSegment |-> segment, ppOffset |-> offset]

\* SegmentPool.h 676: while(pSegment != UNKNOWN_SEGMENT)
RECURSIVE readPostingsWhile(_, _)
readPostingsWhile(c, f) ==
  IF c.pSegment = UNKNOWN_SEGMENT THEN c
  ELSE readPostingsWhile(readPostingsBody(c, f), f)

\* SegmentPool.h 709: return ENCODE_POINTER(sSegment, sOffset)
readPostingsReturn(c) ==
  [pool |-> c.pool, pointer |-> ENCODE_POINTER(c.sSegment, c.sOffset)]

\* SegmentPool.h 670-710
readPostingsForTerm(pool, pointer, f) ==
  readPostingsReturn(
    readPostingsWhile([pool |-> pool,
                       pSegment |-> DECODE_SEGMENT(pointer),
                       pOffset |-> DECODE_OFFSET(pointer),
                       sSegment |-> -1, sOffset |-> 0,
                       ppSegment |-> -1, ppOffset |-> 0], f))

VARIABLES index, data, termid, pc, order, ingested, appended, file, retrieval, inflight
vars == <<index, data, termid, pc, order, ingested, appended, file, retrieval, inflight>>

\* while(newLen <= bound) newLen *= 2, entered with newLen = 2 * len; the loop
\* never ends on a newLen of 0, which InitTf keeps out of reach
RECURSIVE DoubleUntil(_, _)
DoubleUntil(newLen, bound) ==
  IF newLen <= 0 \/ newLen > bound THEN newLen ELSE DoubleUntil(2 * newLen, bound)

\* NextTermid without its condition: the counter moves on every token
NextTermid_EveryToken(id, counter) == counter + 1

\* indexer.c 120-122: if(id == termid) termid++
NextTermid(id, counter) == IF id = counter THEN counter + 1 ELSE counter

\* indexer.c 113-193: one token of the line, at 1-based position `position`
ProcessToken(s, term, position) ==
  LET dictionary == setTermId(s.index.dictionary, term, s.termid)
      id == dictionary[term]
      added == id \notin s.data.uniqueTerms
      b == s.data.buffer
      dfCutoff == s.data.dfCutoff
      vp == b.valuePosition[id]
      \* TFONLY
      tfT == IF b.tf[id] = NULL THEN Zeros(dfCutoff + 1) ELSE b.tf[id]
      bT == [b EXCEPT !.tf[id] = Put(tfT, vp, At(tfT, vp) + 1)]
      \* POSITIONAL
      ps == s.data.psum[id]
      fresh == b.position[id] = NULL
      pos0 == IF fresh THEN Zeros(dfCutoff) ELSE b.position[id]
      plen0 == IF fresh THEN dfCutoff ELSE b.pvalueLength[id]
      pvp == IF fresh THEN 1 ELSE b.pvaluePosition[id]
      tfP == IF fresh THEN Zeros(dfCutoff + 1) ELSE b.tf[id]
      grow == plen0 <= pvp + 1
      plen1 == IF grow THEN DoubleUntil(2 * plen0, pvp + 1) ELSE plen0
      pos1 == IF grow THEN Realloc(pos0, plen0, plen1) ELSE pos0
      pos2 == IF ~added THEN Put(pos1, pvp, position - At(pos1, pvp))
                        ELSE Put(pos1, pvp, position)
      pos3 == Put(pos2, pvp + 1, position)
      pos4 == Put(pos3, ps, At(pos3, ps) + 1)
      bP == [b EXCEPT !.position[id] = pos4, !.pvalueLength[id] = plen1,
                      !.pvaluePosition[id] = pvp + 1,
                      !.tf[id] = Put(tfP, vp, At(tfP, vp) + 1)]
      buffer == IF s.data.positional = TFONLY THEN bT
                ELSE IF s.data.positional = POSITIONAL THEN bP ELSE b
  IN  [s EXCEPT !.termid = NextTermid(id, s.termid),
                !.index.dictionary = dictionary,
                !.index.pointers.cf[id] = @ + 1,
                !.data.uniqueTerms = @ \cup {id},
                !.data.buffer = buffer]

\* the while(consumed > 0) loop over the tokens, from position `position`
RECURSIVE ProcessTokens(_, _, _)
ProcessTokens(s, tokens, position) ==
  IF tokens = << >> THEN s
  ELSE ProcessTokens(ProcessToken(s, Head(tokens), position), Tail(tokens), position + 1)

\* indexer.c 209-222
UpdateMaxTf(s, id, docid) ==
  LET p == s.index.pointers
      tf == At(s.data.buffer.tf[id], s.data.buffer.valuePosition[id])
      dl == p.docLen[docid]
  IN  IF s.data.positional \in {TFONLY, POSITIONAL}
         /\ Bm25TfGreater(tf, dl, p.maxTf[id], p.maxTfDocLen[id], p.totalDocLen, p.totalDocs)
        THEN [s EXCEPT !.index.pointers.maxTf[id] = tf,
                       !.index.pointers.maxTfDocLen[id] = dl]
        ELSE s

\* indexer.c 225-227
ResetCurrentPosition(s, id) ==
  IF s.data.positional = POSITIONAL
    THEN [s EXCEPT !.data.buffer.position[id] = Put(@, s.data.buffer.pvaluePosition[id], 0)]
    ELSE s

\* AppendScratch without data->buffer->valuePosition[id]++
AppendScratch_NoAdvance(s, id, docid) ==
  [s EXCEPT !.data.buffer.docid[id] =
               Put(IF @ = NULL THEN Zeros(s.data.dfCutoff) ELSE @,
                   s.index.pointers.df[id], docid),
            !.data.buffer.valueLength[id] =
               IF s.data.buffer.docid[id] = NULL THEN s.data.dfCutoff ELSE @,
            !.index.pointers.df[id] = @ + 1]

\* indexer.c 233-244: df is below the cut-off
AppendScratch(s, id, docid) ==
  LET b == s.data.buffer
      df == s.index.pointers.df[id]
      cur == IF b.docid[id] = NULL THEN Zeros(s.data.dfCutoff) ELSE b.docid[id]
  IN  [s EXCEPT !.data.buffer.docid[id] = Put(cur, df, docid),
                !.data.buffer.valueLength[id] =
                   IF b.docid[id] = NULL THEN s.data.dfCutoff ELSE @,
                !.data.buffer.valuePosition[id] = @ + 1,
                !.index.pointers.df[id] = @ + 1]

\* Promote with the tf buffer cleared from index dfCutoff, as the docid buffer is
Promote_TfCleared(s, id) ==
  IF s.data.buffer.valueLength[id] < BLOCK_SIZE
    THEN [s EXCEPT
            !.data.buffer.docid[id] = Realloc(@, s.data.dfCutoff, BLOCK_SIZE),
            !.data.buffer.valueLength[id] = BLOCK_SIZE,
            !.data.buffer.valuePosition[id] = s.data.dfCutoff,
            !.data.buffer.tf[id] =
               IF s.data.positional \in {TFONLY, POSITIONAL}
                 THEN Realloc(@, s.data.dfCutoff, BLOCK_SIZE) ELSE @,
            !.data.buffer.position[id] =
               IF s.data.positional = POSITIONAL
                 THEN Realloc(@, s.data.buffer.pvalueLength[id],
                              2 * ((s.data.buffer.pvalueLength[id] \div BLOCK_SIZE) + 1)
                                * BLOCK_SIZE)
                 ELSE @,
            !.data.buffer.pvalueLength[id] =
               IF s.data.positional = POSITIONAL
                 THEN 2 * ((@ \div BLOCK_SIZE) + 1) * BLOCK_SIZE ELSE @]
    ELSE s

\* indexer.c 248-273: expand the buffers to block size
Promote(s, id) ==
  LET b == s.data.buffer
      dfCutoff == s.data.dfCutoff
      origLen == b.pvalueLength[id]
      len == 2 * ((origLen \div BLOCK_SIZE) + 1) * BLOCK_SIZE
  IN  IF b.valueLength[id] < BLOCK_SIZE
        THEN [s EXCEPT
                !.data.buffer.docid[id] = Realloc(@, dfCutoff, BLOCK_SIZE),
                !.data.buffer.valueLength[id] = BLOCK_SIZE,
                !.data.buffer.valuePosition[id] = dfCutoff,
                !.data.buffer.tf[id] =
                   IF s.data.positional \in {TFONLY, POSITIONAL}
                     THEN Realloc(@, dfCutoff + 1, BLOCK_SIZE) ELSE @,
                !.data.buffer.position[id] =
                   IF s.data.positional = POSITIONAL THEN Realloc(@, origLen, len) ELSE @,
                !.data.buffer.pvalueLength[id] =
                   IF s.data.positional = POSITIONAL THEN len ELSE @]
        ELSE s

\* AppendDocid without index->pointers->df->counter[id]++
AppendDocid_DfNotCounted(s, id, docid) ==
  [s EXCEPT !.data.buffer.docid[id] = Put(@, s.data.buffer.valuePosition[id], docid),
            !.data.buffer.valuePosition[id] = @ + 1,
            !.data.psum[id] =
               IF s.data.positional = POSITIONAL
                  /\ (s.data.buffer.valuePosition[id] + 1) % BLOCK_SIZE = 0
                 THEN s.data.buffer.pvaluePosition[id] ELSE @,
            !.data.buffer.pvaluePosition[id] =
               IF s.data.positional = POSITIONAL
                  /\ (s.data.buffer.valuePosition[id] + 1) % BLOCK_SIZE = 0
                 THEN @ + 1 ELSE @]

\* indexer.c 275-287: append the docid, count it, open the next block's
\* position count
AppendDocid(s, id, docid) ==
  LET b == s.data.buffer
      vp == b.valuePosition[id]
      newBlock == s.data.positional = POSITIONAL /\ (vp + 1) % BLOCK_SIZE = 0
  IN  [s EXCEPT !.data.buffer.docid[id] = Put(@, vp, docid),
                !.data.buffer.valuePosition[id] = vp + 1,
                !.index.pointers.df[id] = @ + 1,
                !.data.psum[id] = IF newBlock THEN b.pvaluePosition[id] ELSE @,
                !.data.buffer.pvaluePosition[id] = IF newBlock THEN @ + 1 ELSE @]

\* SetHead without its condition: the head pointer is set on every append
SetHead_Always(s, id, r) ==
  [s EXCEPT !.index.pool = r.pool,
            !.pointer = r.pointer,
            !.index.pointers.headPointers[id] = r.pointer,
            !.appended[id] = Append(@, r.pointer)]

\* if(reverse || getHeadPointer(pointers, id) == UNDEFINED_POINTER)
\*   setHeadPointer(pointers, id, pointer), for the result r of a compressAndAdd*
SetHead(s, id, r) ==
  [s EXCEPT !.index.pool = r.pool,
            !.pointer = r.pointer,
            !.index.pointers.headPointers[id] =
               IF s.index.pool.reverse # 0 \/ @ = UNDEFINED_POINTER THEN r.pointer ELSE @,
            !.appended[id] = Append(@, r.pointer)]

\* one compressAndAdd* call of the indexer for the len docids at
\* docid[id][from ..] and the positions counted at position[id][s.ps], with
\* the head pointer update that follows it; s.pointer is the running tail
AddBlock(s, id, from, len) ==
  SetHead(s, id,
    IF s.data.positional = TFONLY
      THEN compressAndAddTfOnly(s.index.pool, Slice(s.data.buffer.docid[id], from, len),
                                Slice(s.data.buffer.tf[id], from, len), len, s.pointer)
    ELSE IF s.data.positional = POSITIONAL
      THEN compressAndAddPositional(s.index.pool, Slice(s.data.buffer.docid[id], from, len),
                                    Slice(s.data.buffer.tf[id], from, len),
                                    Slice(s.data.buffer.position[id], s.ps + 1,
                                          At(s.data.buffer.position[id], s.ps)),
                                    len, At(s.data.buffer.position[id], s.ps), s.pointer)
    ELSE compressAndAddNonPositional(s.index.pool, Slice(s.data.buffer.docid[id], from, len),
                                     len, s.pointer))

\* AdvancePs without the count word: ps += position[id][ps]
AdvancePs_CountWordIn(s, id) ==
  IF s.data.positional = POSITIONAL
    THEN [s EXCEPT !.ps = @ + At(s.data.buffer.position[id], @)]
    ELSE s

\* ps += position[id][ps] + 1
AdvancePs(s, id) ==
  IF s.data.positional = POSITIONAL
    THEN [s EXCEPT !.ps = @ + At(s.data.buffer.position[id], @) + 1]
    ELSE s

\* for(j = 0; j < nb; j++): blocks j .. nb-1 of the docid buffer
RECURSIVE AddBlocks(_, _, _, _)
AddBlocks(s, id, j, nb) ==
  IF j >= nb THEN s
  ELSE AddBlocks(AdvancePs(AddBlock(s, id, j * BLOCK_SIZE, BLOCK_SIZE), id), id, j + 1, nb)

\* StartBlocks with the running pointer not initialised from the tail pointer
StartBlocks_NoTail(s, id) ==
  [s EXCEPT !.pointer = UNDEFINED_POINTER, !.ps = 0]

\* long pointer = tailPointer[id]; int ps = 0
StartBlocks(s, id) ==
  [s EXCEPT !.pointer = s.data.buffer.tailPointer[id], !.ps = 0]

\* indexer.c 343-353: the capacity of the docid buffer after a flush
ExpandedLength(valueLength, maxBlocks, expansionEnabled) ==
  IF valueLength < maxBlocks /\ expansionEnabled
    THEN valueLength * EXPANSION_RATE ELSE valueLength

\* ResetBuffers without data->buffer->tailPointer[id] = pointer
ResetBuffers_NoTail(s, id, newLen) ==
  [s EXCEPT
     !.data.buffer.valueLength[id] = newLen,
     !.data.buffer.docid[id] = Zeros(newLen),
     !.data.buffer.tf[id] =
        IF s.data.positional \in {TFONLY, POSITIONAL} THEN Zeros(newLen) ELSE @,
     !.data.buffer.position[id] =
        IF s.data.positional = POSITIONAL
          THEN Zeros(s.data.buffer.pvalueLength[id]) ELSE @,
     !.data.buffer.pvaluePosition[id] = IF s.data.positional = POSITIONAL THEN 1 ELSE @,
     !.data.psum[id] = IF s.data.positional = POSITIONAL THEN 0 ELSE @,
     !.data.buffer.valuePosition[id] = 0]

\* indexer.c 339-372: record the tail, expand and reset the buffers
ResetBuffers(s, id, newLen) ==
  [s EXCEPT
     !.data.buffer.tailPointer[id] = s.pointer,
     !.data.buffer.valueLength[id] = newLen,
     !.data.buffer.docid[id] = Zeros(newLen),
     !.data.buffer.tf[id] =
        IF s.data.positional \in {TFONLY, POSITIONAL} THEN Zeros(newLen) ELSE @,
     !.data.buffer.position[id] =
        IF s.data.positional = POSITIONAL
          THEN Zeros(s.data.buffer.pvalueLength[id]) ELSE @,
     !.data.buffer.pvaluePosition[id] = IF s.data.positional = POSITIONAL THEN 1 ELSE @,
     !.data.psum[id] = IF s.data.positional = POSITIONAL THEN 0 ELSE @,
     !.data.buffer.valuePosition[id] = 0]

\* indexer.c 291-373: the docid buffer is full
FlushFull(s, id) ==
  IF s.data.buffer.valuePosition[id] >= s.data.buffer.valueLength[id]
    THEN ResetBuffers(
           AddBlocks(StartBlocks(s, id), id, 0, s.data.buffer.valueLength[id] \div BLOCK_SIZE),
           id,
           ExpandedLength(s.data.buffer.valueLength[id], s.data.maxBlocks,
                          s.data.expansionEnabled))
    ELSE s

\* indexer.c 207-373: one unique term of the document
\* BelowCutoff with the cut-off included: one more document stays in scratch
BelowCutoff_Inclusive(df, dfCutoff) == df <= dfCutoff
\* indexer.c 233: the term is still in its scratch stage
BelowCutoff(df, dfCutoff) == df < dfCutoff

ProcessTerm(s, id, docid) ==
  LET s1 == ResetCurrentPosition(UpdateMaxTf(s, id, docid), id)
  IN  IF BelowCutoff(s1.index.pointers.df[id], s1.data.dfCutoff)
        THEN AppendScratch(s1, id, docid)
        ELSE FlushFull(AppendDocid(Promote(s1, id), id, docid), id)

\* while((keyPos = nextIndexIntSet(...)) != -1): the unique terms, by id
RECURSIVE ProcessTerms(_, _, _)
ProcessTerms(s, ids, docid) ==
  IF ids = {} THEN s
  ELSE LET id == CHOOSE x \in ids : \A y \in ids : x <= y
       IN  ProcessTerms(ProcessTerm(s, id, docid), ids \ {id}, docid)

\* process without clearIntSet(data->uniqueTerms): the terms of the earlier
\* documents are taken for terms of this one
process_SetKept(s, docid, tokens) ==
  LET s1 == ProcessTokens(s, tokens, 1)
      position == Len(tokens)
      s2 == [s1 EXCEPT !.index.pointers.docLen[docid] = position,
                       !.index.pointers.totalDocLen = @ + position,
                       !.index.pointers.totalDocs = @ + 1]
  IN  ProcessTerms(s2, s2.data.uniqueTerms, docid)

\* process(index, data, line, termid), line = docid \t tokens
process(s, docid, tokens) ==
  LET s0 == [s EXCEPT !.data.uniqueTerms = {}]
      s1 == ProcessTokens(s0, tokens, 1)
      position == Len(tokens)
      s2 == [s1 EXCEPT !.index.pointers.docLen[docid] = position,
                       !.index.pointers.totalDocLen = @ + position,
                       !.index.pointers.totalDocs = @ + 1]
  IN  ProcessTerms(s2, s2.data.uniqueTerms, docid)

\* nextIndexBufferMaps(buffer, term, minLength): the next index after `term`
\* whose docid buffer has at least minLength entries, -1 if there is none
nextIndexBufferMaps(buffer, term, minLength) ==
  LET next == {t \in TermIds : t > term /\ buffer.valueLength[t] >= minLength}
  IN  IF next = {} THEN -1 ELSE CHOOSE t \in next : \A u \in next : t <= u

\* DumpResidue without the if(res > 0) branch: the partial block is dropped
DumpResidue_Dropped(s, term, from, res) == s

\* indexer.c 582-603: if(res > 0), the partial block at docid[term][from ..]
DumpResidue(s, term, from, res) ==
  IF res > 0 THEN AddBlock(s, term, from, res) ELSE s

\* DumpTerm without the split into blocks: the buffer goes out as one block
DumpTerm_Unsplit(s, term) ==
  DumpResidue(StartBlocks(s, term), term, 0, s.data.buffer.valuePosition[term])

\* indexer.c 548-604: the remaining postings of one term
DumpTerm(s, term) ==
  IF s.data.buffer.valuePosition[term] > 0
    THEN DumpResidue(
           AddBlocks(StartBlocks(s, term), term, 0,
                     s.data.buffer.valuePosition[term] \div BLOCK_SIZE),
           term,
           (s.data.buffer.valuePosition[term] \div BLOCK_SIZE) * BLOCK_SIZE,
           s.data.buffer.valuePosition[term] % BLOCK_SIZE)
    ELSE s

\* indexer.c 544-605: while((term = nextIndexBufferMaps(...)) != -1)
RECURSIVE DumpFrom(_, _)
DumpFrom(s, term) ==
  LET next == nextIndexBufferMaps(s.data.buffer, term, BLOCK_SIZE)
  IN  IF next = -1 THEN s ELSE DumpFrom(DumpTerm(s, next), next)

\* ------------------------------------------------------------ the inputs
\* -mb, -dfCutoff, -k and -r of the command line
MaxBlocksArgs == {1, 2, 3}
DfCutoffArgs == 0 .. (BLOCK_SIZE - 1)
NbHashArg == 2
BitsPerElementArg == 20
Orders == {"ascending", "descending"}
\* the lines of the input files, without their docid
Lines == {<<"a">>, <<"a", "b">>, <<"b", "b">>}

createPointers ==
  [df |-> [t \in TermIds |-> 0], cf |-> [t \in TermIds |-> 0],
   headPointers |-> [t \in TermIds |-> UNDEFINED_POINTER],
   docLen |-> [d \in DocIds |-> 0],
   maxTf |-> [t \in TermIds |-> 0], maxTfDocLen |-> [t \in TermIds |-> 0],
   totalDocs |-> 0, totalDocLen |-> 0]

createBufferMaps ==
  [docid |-> [t \in TermIds |-> NULL], tf |-> [t \in TermIds |-> NULL],
   position |-> [t \in TermIds |-> NULL],
   tailPointer |-> [t \in TermIds |-> UNDEFINED_POINTER],
   valuePosition |-> [t \in TermIds |-> 0], valueLength |-> [t \in TermIds |-> 0],
   pvaluePosition |-> [t \in TermIds |-> 0], pvalueLength |-> [t \in TermIds |-> 0]]

\* indexer.c 420: nbHash and bitsPerElement are locals without an initializer;
\* without -bloom they are passed on holding whatever the stack held
Uninitialised == {<<0, 0>>, <<7, 3>>}
\* indexer.c 419-424: <<nbHash, bitsPerElement>> as main hands them on
BloomArgs(bloomEnabled) ==
  IF bloomEnabled # 0 THEN {<<NbHashArg, BitsPerElementArg>>} ELSE Uninitialised

\* indexer.c 445-462: the index around `pool` and the indexing data
InitWithPool(pool, positional, dfCutoff, mb, o) ==
  LET maxBlocks == mb * BLOCK_SIZE
  IN  /\ index = [pool |-> pool,
                  dictionary |-> << >>,
                  pointers |-> createPointers]
      /\ data = [buffer |-> createBufferMaps,
                 psum |-> [t \in TermIds |-> 0],
                 uniqueTerms |-> {},
                 positional |-> positional,
                 expansionEnabled |-> (maxBlocks > BLOCK_SIZE),
                 maxBlocks |-> maxBlocks,
                 dfCutoff |-> dfCutoff]
      /\ termid = 0
      /\ pc = "index"
      /\ order = o
      /\ ingested = << >>
      /\ appended = [t \in TermIds |-> << >>]
      /\ file = NULL
      /\ retrieval = NULL
      /\ inflight = NULL

\* indexer.c 402-462: main up to the first line of input
InitMain(positional, reverse, bloomEnabled, bloomArgs, dfCutoff, mb, o) ==
  InitWithPool(createSegmentPool(NUMBER_OF_POOLS, reverse, bloomEnabled,
                                 bloomArgs[1], bloomArgs[2]),
               positional, dfCutoff, mb, o)

Init ==
  \E reverse \in {0, 1}, bloomEnabled \in {0, 1}, dfCutoff \in DfCutoffArgs,
     mb \in MaxBlocksArgs, o \in Orders :
       \E bloomArgs \in BloomArgs(bloomEnabled) :
          InitMain(NONPOSITIONAL, reverse, bloomEnabled, bloomArgs, dfCutoff, mb, o)

\* the docid of the next line of the input
NextDocid ==
  IF order = "ascending" THEN index.pointers.totalDocs + 1
  ELSE MaxDocs - index.pointers.totalDocs

\* the indexer's state as the record its functions are handed, with the
\* locals `pointer` and `ps` of the flush loops
Program ==
  [index |-> index, data |-> data, termid |-> termid, appended |-> appended,
   pointer |-> UNDEFINED_POINTER, ps |-> 0]

\* indexer.c 507, 512: termid = process(index, data, line, termid)
ProcessLine(tokens) ==
  /\ pc = "index"
  /\ index.pointers.totalDocs < MaxDocs
  /\ \E s \in {process(Program, NextDocid, tokens)} :
       /\ index' = s.index
       /\ data' = s.data
       /\ termid' = s.termid
       /\ appended' = s.appended
  /\ ingested' = Append(ingested, [docid |-> NextDocid, tokens |-> tokens])
  /\ UNCHANGED <<pc, order, file, retrieval, inflight>>

Process == \E tokens \in Lines : ProcessLine(tokens)

\* indexer.c 541-605: the input is exhausted, dump the buffers
EndOfStream ==
  /\ pc = "index"
  /\ \E s \in {DumpFrom(Program, -1)} :
       /\ index' = s.index
       /\ data' = s.data
       /\ appended' = s.appended
  /\ pc' = "done"
  /\ UNCHANGED <<termid, order, ingested, file, retrieval, inflight>>

Next == Process \/ EndOfStream

Spec == Init /\ [][Next]_vars

\* ------------------------------------------- indexing with term frequencies
\* the lines of the input files of the tf-only and positional runs
LinesTf == {<<"a", "a", "b", "b", "b", "b">>, <<"a">>, <<"b">>}

\* main with -positional set to tf-only or positional; with positions and a
\* df cut-off of 0 the while loop of indexer.c 163 doubles 0 for ever
InitTf ==
  \E positional \in {TFONLY, POSITIONAL}, reverse \in {0, 1}, bloomEnabled \in {0, 1},
     dfCutoff \in DfCutoffArgs, mb \in MaxBlocksArgs, o \in Orders :
       /\ positional = POSITIONAL => dfCutoff > 0
       /\ \E bloomArgs \in BloomArgs(bloomEnabled) :
            InitMain(positional, reverse, bloomEnabled, bloomArgs, dfCutoff, mb, o)

ProcessTf == \E tokens \in LinesTf : ProcessLine(tokens)

NextTf == ProcessTf \/ EndOfStream

SpecTf == InitTf /\ [][NextTf]_vars

\* ------------------------------------------------- indexing with positions
\* main with -positional; the df cut-off is not 0 (see InitTf)
InitPositional ==
  \E reverse \in {0, 1}, bloomEnabled \in {0, 1}, dfCutoff \in DfCutoffArgs \ {0},
     mb \in MaxBlocksArgs, o \in Orders :
       \E bloomArgs \in BloomArgs(bloomEnabled) :
          InitMain(POSITIONAL, reverse, bloomEnabled, bloomArgs, dfCutoff, mb, o)

SpecPositional == InitPositional /\ [][NextTf]_vars

\* ------------------------------------------- indexing near an arena's end
\* the words left in the current arena when the run is picked up
StartSlack == {10, 11, 21, 22}
\* the arena the run is picked up in: the first and the last allocated one
StartSegments == {0, NUMBER_OF_POOLS - 1}

\* the pool as createSegmentPool made it, after earlier input has moved its
\* cursor to (segment, offset); the blocks of that input belong to other terms
PoolAt(pool, segment, offset) == [pool EXCEPT !.segment = segment, !.offset = offset]

\* main, picked up when the pool's cursor is close to the end of an arena
InitRoll ==
  \E positional \in {NONPOSITIONAL, TFONLY, POSITIONAL},
     reverse \in {0, 1}, bloomEnabled \in {0, 1}, mb \in {1, 2},
     segment \in StartSegments, slack \in StartSlack :
       \E bloomArgs \in BloomArgs(bloomEnabled) :
          InitWithPool(PoolAt(createSegmentPool(NUMBER_OF_POOLS, reverse, bloomEnabled,
                                                bloomArgs[1], bloomArgs[2]),
                              segment, MAX_INT_VALUE - slack),
                       positional, IF positional = POSITIONAL THEN 1 ELSE 0,
                       mb, "ascending")

\* createSegmentPool allocates the arenas 0 .. numberOfPools-1 only
Allocated(pool) == pool.segment < pool.numberOfPools

\* a step that has written through pool->pool[segment] with segment past the
\* allocated arenas: the store goes through a pointer read from beyond the
\* malloc'ed array, so the process either carries on with the words where it
\* put them, or is killed at the first such store
Faults(s) == ~Allocated(s.index.pool) /\ s.index.pool # index.pool
Killed ==
  /\ pc' = "killed"
  /\ UNCHANGED <<index, data, termid, order, ingested, appended, file, retrieval, inflight>>

ProcessLineRoll(tokens) ==
  /\ pc = "index"
  /\ index.pointers.totalDocs < MaxDocs
  /\ \E s \in {process(Program, NextDocid, tokens)} :
       \/ /\ index' = s.index
          /\ data' = s.data
          /\ termid' = s.termid
          /\ appended' = s.appended
          /\ ingested' = Append(ingested, [docid |-> NextDocid, tokens |-> tokens])
          /\ UNCHANGED <<pc, order, file, retrieval, inflight>>
       \/ Faults(s) /\ Killed

ProcessRoll == \E tokens \in Lines : ProcessLineRoll(tokens)

EndOfStreamRoll ==
  /\ pc = "index"
  /\ \E s \in {DumpFrom(Program, -1)} :
       \/ /\ index' = s.index
          /\ data' = s.data
          /\ appended' = s.appended
          /\ pc' = "done"
          /\ UNCHANGED <<termid, order, ingested, file, retrieval, inflight>>
       \/ Faults(s) /\ Killed

NextRoll == ProcessRoll \/ EndOfStreamRoll

SpecRoll == InitRoll /\ [][NextRoll]_vars

\* ------------------------------- indexing with a df cut-off of a block or more
\* main with -dfCutoff BLOCK_SIZE or more: indexer.c 436-439 take any value
InitCutoff ==
  \E positional \in {NONPOSITIONAL, TFONLY}, reverse \in {0, 1}, mb \in {1, 2},
     dfCutoff \in {BLOCK_SIZE, BLOCK_SIZE + 1} :
       InitMain(positional, reverse, 1, <<NbHashArg, BitsPerElementArg>>, dfCutoff, mb,
                "ascending")

\* indexer.c 276: curBuffer[valuePosition++] = docid, for a term past the
\* scratch stage, stores at or behind the end of the buffer of valueLength
\* entries that indexer.c 249-273 leave
Overruns(s, id) ==
  /\ ~BelowCutoff(s.index.pointers.df[id], s.data.dfCutoff)
  /\ Promote(s, id).data.buffer.valuePosition[id]
       >= Promote(s, id).data.buffer.valueLength[id]

\* process() on a line; a store behind the end of a malloc'ed buffer either
\* lands in memory nothing else reads, or ends the process
ProcessLineCutoff(tokens) ==
  /\ pc = "index"
  /\ index.pointers.totalDocs < MaxDocs
  /\ \E s \in {process(Program, NextDocid, tokens)} :
       \/ /\ index' = s.index
          /\ data' = s.data
          /\ termid' = s.termid
          /\ appended' = s.appended
          /\ ingested' = Append(ingested, [docid |-> NextDocid, tokens |-> tokens])
          /\ UNCHANGED <<pc, order, file, retrieval, inflight>>
       \/ /\ \E id \in s.data.uniqueTerms : Overruns(Program, id)
          /\ Killed

NextCutoff == (\E tokens \in Lines : ProcessLineCutoff(tokens)) \/ EndOfStream

SpecCutoff == InitCutoff /\ [][NextCutoff]_vars

\* ------------------------------------------ writing and reading the index
\* the words left in the indexer's first arena when the run is picked up
SourceSlack == {11, 22}
\* the words left in the first arena of the pool the postings are copied into
DestSlack == {11, 25}
\* what malloc may have left in the numberOfPools field of a pool read back
MallocGarbage == {0, 9}
\* the lines of the input files of the runs whose index is written and read
LinesDisk == {<<"a", "b">>, <<"b">>}

InitDisk ==
  \E positional \in {NONPOSITIONAL, TFONLY, POSITIONAL},
     reverse \in {0, 1}, bloomEnabled \in {0, 1}, mb \in {1, 2},
     slack \in SourceSlack :
       \E bloomArgs \in BloomArgs(bloomEnabled) :
          InitWithPool(PoolAt(createSegmentPool(NUMBER_OF_POOLS, reverse, bloomEnabled,
                                                bloomArgs[1], bloomArgs[2]),
                              0, MAX_INT_VALUE - slack),
                       positional, IF positional = POSITIONAL THEN 1 ELSE 0,
                       mb, "ascending")

\* indexer.c 613: writeInvertedIndex writes the pool to the file `index`
WriteIndex ==
  /\ pc = "done"
  /\ file' = writeSegmentPool(index.pool)
  /\ pc' = "written"
  /\ UNCHANGED <<index, data, termid, order, ingested, appended, retrieval, inflight>>

\* the index is read back whole
LoadIndex ==
  /\ pc = "written"
  /\ \E numberOfPools \in MallocGarbage :
       retrieval' = [pool |-> readSegmentPool(file, numberOfPools),
                     heads |-> [t \in TermIds |-> UNDEFINED_POINTER],
                     read |-> << >>]
  /\ pc' = "loaded"
  /\ UNCHANGED <<index, data, termid, order, ingested, appended, file, inflight>>

\* the index is opened for reading postings term by term: a pool with the
\* file's flags, its cursor close to the end of the first arena
OpenIndex ==
  /\ pc = "written"
  /\ \E slack \in DestSlack :
       retrieval' = [pool |-> PoolAt(createSegmentPool(NUMBER_OF_POOLS,
                                                       readReverseFlag(file),
                                                       readBloomStats(file).bloomEnabled,
                                                       readBloomStats(file).nbHash,
                                                       readBloomStats(file).bitsPerElement),
                                     0, MAX_INT_VALUE - slack),
                     heads |-> [t \in TermIds |-> UNDEFINED_POINTER],
                     read |-> << >>]
  /\ pc' = "open"
  /\ UNCHANGED <<index, data, termid, order, ingested, appended, file, inflight>>

\* heads[t] = readPostingsForTerm(pool, getHeadPointer(pointers, t), fp)
ReadPostingsOf(t) ==
  /\ pc = "open"
  /\ \A i \in 1 .. Len(retrieval.read) : retrieval.read[i] # t
  /\ \E r \in {readPostingsForTerm(retrieval.pool, index.pointers.headPointers[t], file)} :
       retrieval' = [pool |-> r.pool,
                     heads |-> [retrieval.heads EXCEPT ![t] = r.pointer],
                     read |-> Append(retrieval.read, t)]
  /\ UNCHANGED <<index, data, termid, pc, order, ingested, appended, file, inflight>>

ReadPostings == \E t \in TermIds : ReadPostingsOf(t)

ProcessDisk == \E tokens \in LinesDisk : ProcessLine(tokens)

NextDisk ==
  ProcessDisk \/ EndOfStream \/ WriteIndex \/ LoadIndex \/ OpenIndex \/ ReadPostings

SpecDisk == InitDisk /\ [][NextDisk]_vars

\* ---------------------------------------------------- reading the index
\* header words of the block at `pointer`
BlockNextSegment(pool, pointer) ==
  Word(pool, DECODE_SEGMENT(pointer), DECODE_OFFSET(pointer) + 1)
BlockMaxDocid(pool, pointer) ==
  Word(pool, DECODE_SEGMENT(pointer), DECODE_OFFSET(pointer) + 3)
BlockLen(pool, pointer) ==
  Word(pool, DECODE_SEGMENT(pointer), DECODE_OFFSET(pointer) + 5)

\* the blocks reached from `pointer` by nextPointer, at most `fuel` of them
RECURSIVE ChainFrom(_, _, _)
ChainFrom(pool, pointer, fuel) ==
  IF pointer = UNDEFINED_POINTER \/ fuel = 0 THEN << >>
  ELSE <<pointer>> \o ChainFrom(pool, nextPointer(pool, pointer), fuel - 1)

\* the decoded docid blocks along the chain from `pointer`, concatenated
RECURSIVE DecodeFrom(_, _, _)
DecodeFrom(pool, pointer, fuel) ==
  IF pointer = UNDEFINED_POINTER \/ fuel = 0 THEN << >>
  ELSE decompressDocidBlock(pool, pointer)
         \o DecodeFrom(pool, nextPointer(pool, pointer), fuel - 1)

\* a term's chain holds at most one block per document
Chain(t) == ChainFrom(index.pool, index.pointers.headPointers[t], MaxDocs + 1)
Postings(t) == DecodeFrom(index.pool, index.pointers.headPointers[t], MaxDocs + 1)

\* the docids of the documents of `docs` that contain the term with id t
RECURSIVE DocidsWith(_, _)
DocidsWith(docs, t) ==
  IF docs = << >> THEN << >>
  ELSE (IF \E i \in 1 .. Len(Head(docs).tokens) :
              getTermId(index.dictionary, Head(docs).tokens[i]) = t
          THEN <<Head(docs).docid>> ELSE << >>)
         \o DocidsWith(Tail(docs), t)

Promoted(t) == index.pointers.df[t] > data.dfCutoff

\* the sum of the len fields of the blocks along the chain from `pointer`
RECURSIVE SumLenFrom(_, _, _)
SumLenFrom(pool, pointer, fuel) ==
  IF pointer = UNDEFINED_POINTER \/ fuel = 0 THEN 0
  ELSE BlockLen(pool, pointer) + SumLenFrom(pool, nextPointer(pool, pointer), fuel - 1)
ChainLen(t) == SumLenFrom(index.pool, index.pointers.headPointers[t], MaxDocs + 1)

\* the max_docid fields of the blocks along the chain from `pointer`
RECURSIVE MaxDocidsFrom(_, _, _)
MaxDocidsFrom(pool, pointer, fuel) ==
  IF pointer = UNDEFINED_POINTER \/ fuel = 0 THEN << >>
  ELSE <<BlockMaxDocid(pool, pointer)>>
         \o MaxDocidsFrom(pool, nextPointer(pool, pointer), fuel - 1)
MaxDocids(t) == MaxDocidsFrom(index.pool, index.pointers.headPointers[t], MaxDocs + 1)

StrictlyIncreasing(s) == \A i \in 1 .. (Len(s) - 1) : s[i] < s[i + 1]
StrictlyDecreasing(s) == \A i \in 1 .. (Len(s) - 1) : s[i] > s[i + 1]

\* ------------------------------------------------------------ the claims
\* C1: forward mode, ascending docids: once indexing is complete, the decoded
\* docid blocks along the chain of every promoted term (df > df_cutoff),
\* concatenated from the head pointer, are exactly the docids of the documents
\* containing the term, in ingestion order, for every max_blocks setting.
C1_ForwardRoundTrip ==
  (pc = "done" /\ index.pool.reverse = 0 /\ order = "ascending") =>
     \A t \in TermIds : Promoted(t) => Postings(t) = DocidsWith(ingested, t)

\* a promoted term whose buffer was doubled, with two full blocks and a
\* residual block in its chain
C1_Witness ==
  /\ pc = "done" /\ index.pool.reverse = 0 /\ order = "ascending"
  /\ data.expansionEnabled
  /\ \E t \in TermIds :
       /\ Promoted(t)
       /\ Len(appended[t]) >= 3
       /\ data.buffer.valueLength[t] > BLOCK_SIZE
       /\ BlockLen(index.pool, appended[t][Len(appended[t])]) < BLOCK_SIZE

C3_DfAccounting ==
  pc = "index" =>
     \A t \in TermIds :
        index.pointers.df[t] = ChainLen(t) + data.buffer.valuePosition[t]

\* a term that went through the scratch stage, was promoted, flushed and
\* doubled, and has unflushed docids again
C3_Witness ==
  /\ pc = "index" /\ data.dfCutoff >= 1
  /\ \E t \in TermIds :
       /\ ChainLen(t) > 0
       /\ data.buffer.valueLength[t] > BLOCK_SIZE
       /\ data.buffer.valuePosition[t] > 0

\* C4: along every chain, from the head pointer through the next links, the
\* max_docid fields are strictly monotone, in forward and in reverse mode,
\* for ascending and for descending ingestion.
C4_MaxDocidMonotone ==
  \A t \in TermIds :
     StrictlyIncreasing(MaxDocids(t)) \/ StrictlyDecreasing(MaxDocids(t))

\* reverse mode, descending ingestion, a chain of three blocks
C4_Witness ==
  /\ index.pool.reverse # 0 /\ order = "descending"
  /\ \E t \in TermIds : Len(MaxDocids(t)) >= 3

\* C5 as stated: reverse mode, documents ingested in strictly descending
\* docid order: along every chain from the head pointer the max_docid fields
\* are strictly decreasing and the decoded docids strictly descending.
C5_ReverseDescendingIngestion ==
  (index.pool.reverse # 0 /\ order = "descending") =>
     \A t \in TermIds :
        StrictlyDecreasing(MaxDocids(t)) /\ StrictlyDecreasing(Postings(t))

\* C5 amended: reverse mode, documents ingested in strictly ascending docid
\* order: along every chain from the head pointer the max_docid fields are
\* strictly decreasing and the decoded docids strictly descending.
C5_ReverseAscendingIngestion ==
  (index.pool.reverse # 0 /\ order = "ascending") =>
     \A t \in TermIds :
        StrictlyDecreasing(MaxDocids(t)) /\ StrictlyDecreasing(Postings(t))

\* reverse mode, ascending ingestion, a chain of three blocks
C5_Witness ==
  /\ index.pool.reverse # 0 /\ order = "ascending"
  /\ \E t \in TermIds : Len(Chain(t)) >= 3 /\ Len(Postings(t)) >= 5

\* the blocks appended for term t whose next_segment is UNKNOWN_SEGMENT
Terminators(t) ==
  {i \in 1 .. Len(appended[t]) :
      BlockNextSegment(index.pool, appended[t][i]) = UNKNOWN_SEGMENT}

\* C6 as stated: of the blocks of a term exactly one has next_segment ==
\* UNKNOWN_SEGMENT; it is the most recently appended block in forward mode
\* and the block the head pointer refers to in reverse mode.
C6_TerminatorAtHeadInReverse ==
  \A t \in TermIds : appended[t] # << >> =>
     \E i \in 1 .. Len(appended[t]) :
        /\ Terminators(t) = {i}
        /\ IF index.pool.reverse = 0
             THEN i = Len(appended[t])
             ELSE appended[t][i] = index.pointers.headPointers[t]

\* C6 amended: of the blocks of a term exactly one has next_segment ==
\* UNKNOWN_SEGMENT; it is the most recently appended block in forward mode
\* and the chronologically first appended block in reverse mode, in both
\* modes the last block reached from the head pointer.
C6_TerminatorAtChainEnd ==
  \A t \in TermIds : appended[t] # << >> =>
     /\ Terminators(t) = {IF index.pool.reverse = 0 THEN Len(appended[t]) ELSE 1}
     /\ \A i \in Terminators(t) : appended[t][i] = Chain(t)[Len(Chain(t))]

\* a reverse chain of at least two blocks
C6_Witness ==
  /\ index.pool.reverse # 0
  /\ \E t \in TermIds : Len(appended[t]) >= 2

\* the blocks of a sequence of pointers
Range(s) == {s[i] : i \in 1 .. Len(s)}

\* C7: from the head pointer, nextPointer visits every block appended for the
\* term exactly once and no block of another term, and is UNDEFINED_POINTER
\* after exactly as many steps as the term has blocks;
\* nextPointer(UNDEFINED_POINTER) is UNDEFINED_POINTER.
C7_TraversalVisitsEachBlockOnce ==
  /\ nextPointer(index.pool, UNDEFINED_POINTER) = UNDEFINED_POINTER
  /\ \A t \in TermIds :
        /\ Len(Chain(t)) = Len(appended[t])
        /\ Range(Chain(t)) = Range(appended[t])
        /\ Cardinality(Range(Chain(t))) = Len(Chain(t))
        /\ \A u \in TermIds \ {t} : Range(Chain(t)) \cap Range(appended[u]) = {}

\* two terms with interleaved blocks, one of them with three
C7_Witness ==
  \E t, u \in TermIds :
     /\ t # u
     /\ Len(appended[t]) >= 3 /\ Len(appended[u]) >= 2
     /\ appended[t][1] < appended[u][1] /\ appended[u][1] < appended[t][3]

\* C8: the head pointer of a term is UNDEFINED_POINTER exactly while no block
\* has been appended for it; afterwards it refers to the first block appended
\* in forward mode and to the most recently appended block in reverse mode.
C8_HeadPointer ==
  \A t \in TermIds :
     IF appended[t] = << >>
       THEN index.pointers.headPointers[t] = UNDEFINED_POINTER
       ELSE index.pointers.headPointers[t] =
              appended[t][IF index.pool.reverse = 0 THEN 1 ELSE Len(appended[t])]

\* forward mode, a term flushed three times
C8_Witness ==
  /\ index.pool.reverse = 0
  /\ \E t, u \in TermIds : Len(appended[t]) >= 3 /\ appended[u] = << >>

\* the docids handed to compressAndAdd* for term t so far: the buffers are
\* flushed in ingestion order, so these are the first docids ingested for t,
\* as many as the len fields of its appended blocks add up to
RECURSIVE SumLenOf(_, _)
SumLenOf(pool, blocks) ==
  IF blocks = << >> THEN 0
  ELSE BlockLen(pool, Head(blocks)) + SumLenOf(pool, Tail(blocks))
PooledDocids(t) ==
  Range(SubSeq(DocidsWith(ingested, t), 1, SumLenOf(index.pool, appended[t])))

\* C9 as stated: with Bloom filters enabled, containsDocid from the head
\* pointer is true for every docid in the term's postings, in both modes.
C9_NoFalseNegatives ==
  index.pool.bloomEnabled # 0 =>
     \A t \in TermIds : \A d \in PooledDocids(t) :
        containsDocid(index.pool, d, index.pointers.headPointers[t]).result

\* C9 amended: with Bloom filters enabled and documents ingested in strictly
\* ascending docid order, containsDocid from the head pointer is true for
\* every docid in the term's postings, in both modes.
C9_NoFalseNegativesAscending ==
  (index.pool.bloomEnabled # 0 /\ order = "ascending") =>
     \A t \in TermIds : \A d \in PooledDocids(t) :
        containsDocid(index.pool, d, index.pointers.headPointers[t]).result

\* reverse mode, a docid of the last block of a three-block chain that is not
\* the block's max_docid, found through the block's Bloom filter
C9_Witness ==
  /\ index.pool.bloomEnabled # 0 /\ order = "ascending" /\ index.pool.reverse # 0
  /\ \E t \in TermIds :
       /\ Len(Chain(t)) >= 3
       /\ \E d \in PooledDocids(t) :
            /\ d \in Range(decompressDocidBlock(index.pool, Chain(t)[3]))
            /\ d \notin Range(MaxDocids(t))
            /\ containsDocid(index.pool, d, index.pointers.headPointers[t]).result

\* the number of occurrences of the term with id t in a line
TfIn(tokens, t) ==
  Cardinality({i \in 1 .. Len(tokens) : getTermId(index.dictionary, tokens[i]) = t})

\* C10: in tf-only or positional mode, once indexing is complete, for every
\* term t and every document d containing t, bm25tf of the stored
\* (max_tf, max_tf_doclen) is at least bm25tf(tf(t, d), doc_len(d)), both
\* under the final avgdl = total_doc_len / total_docs.
C10_MaxTfDominance ==
  (pc = "done" /\ data.positional \in {TFONLY, POSITIONAL}) =>
     \A t \in TermIds : \A i \in 1 .. Len(ingested) :
        TfIn(ingested[i].tokens, t) > 0 =>
           ~Bm25TfGreater(TfIn(ingested[i].tokens, t), Len(ingested[i].tokens),
                          index.pointers.maxTf[t], index.pointers.maxTfDocLen[t],
                          index.pointers.totalDocLen, index.pointers.totalDocs)


\* the decoded tf blocks along the chain from `pointer`, concatenated
RECURSIVE DecodeTfFrom(_, _, _)
DecodeTfFrom(pool, pointer, fuel) ==
  IF pointer = UNDEFINED_POINTER \/ fuel = 0 THEN << >>
  ELSE decompressTfBlock(pool, pointer)
         \o DecodeTfFrom(pool, nextPointer(pool, pointer), fuel - 1)
ChainTfs(t) == DecodeTfFrom(index.pool, index.pointers.headPointers[t], MaxDocs + 1)

\* the occurrence counts of the term with id t in the documents of `docs`
\* that contain it
RECURSIVE TfsWith(_, _)
TfsWith(docs, t) ==
  IF docs = << >> THEN << >>
  ELSE (IF TfIn(Head(docs).tokens, t) > 0
          THEN <<TfIn(Head(docs).tokens, t)>> ELSE << >>)
         \o TfsWith(Tail(docs), t)

Reversed(s) == [i \in 1 .. Len(s) |-> s[Len(s) + 1 - i]]

\* C11: in tf-only or positional mode, once indexing is complete, for every
\* term with df > df_cutoff, cf is the sum of the decoded tf values along the
\* term's chain, and the tf entries are the occurrence counts of the term in
\* its documents, in chain order (ingestion order, reversed in reverse mode);
\* with ascending docids each entry is paired with its document's docid.
C11_CfAccounting ==
  (pc = "done" /\ data.positional \in {TFONLY, POSITIONAL}) =>
     \A t \in TermIds : Promoted(t) =>
        /\ index.pointers.cf[t] = Sum(ChainTfs(t))
        /\ ChainTfs(t) = IF index.pool.reverse = 0 THEN TfsWith(ingested, t)
                         ELSE Reversed(TfsWith(ingested, t))
        /\ order = "ascending" =>
             Postings(t) = IF index.pool.reverse = 0 THEN DocidsWith(ingested, t)
                           ELSE Reversed(DocidsWith(ingested, t))

\* a promoted term that went through the scratch stage, with three blocks
\* and a document in which it occurs more than once
C11_Witness ==
  /\ pc = "done" /\ data.dfCutoff >= 1
  /\ \E t \in TermIds :
       /\ Promoted(t)
       /\ Len(appended[t]) >= 3
       /\ \E i \in 1 .. Len(ChainTfs(t)) : ChainTfs(t)[i] >= 2


\* the lengths of the lines of `docs`
RECURSIVE DocLens(_)
DocLens(docs) ==
  IF docs = << >> THEN << >> ELSE <<Len(Head(docs).tokens)>> \o DocLens(Tail(docs))

\* C12: after any sequence of documents with unique docids, df(t) is the
\* number of documents containing t, cf(t) the number of occurrences of t,
\* doc_len(d) the number of tokens of d, total_docs the number of documents
\* and total_doc_len the sum of the document lengths.
C12_Counters ==
  /\ \A t \in TermIds :
        /\ index.pointers.df[t] = Len(DocidsWith(ingested, t))
        /\ index.pointers.cf[t] = Sum(TfsWith(ingested, t))
  /\ \A i \in 1 .. Len(ingested) :
        index.pointers.docLen[ingested[i].docid] = Len(ingested[i].tokens)
  /\ index.pointers.totalDocs = Len(ingested)
  /\ index.pointers.totalDocLen = Sum(DocLens(ingested))

\* a term repeated inside one document, counted past the df cut-off
C12_Witness ==
  /\ data.dfCutoff >= 1 /\ Len(ingested) >= 3
  /\ \E t \in TermIds :
       /\ Promoted(t)
       /\ index.pointers.cf[t] > index.pointers.df[t]


\* the tokens of `docs`, in input order
RECURSIVE AllTokens(_)
AllTokens(docs) ==
  IF docs = << >> THEN << >> ELSE Head(docs).tokens \o AllTokens(Tail(docs))

\* the distinct elements of a sequence, in the order of their first occurrence
RECURSIVE FirstOccurrences(_, _)
FirstOccurrences(seq, seen) ==
  IF seq = << >> THEN << >>
  ELSE IF Head(seq) \in seen THEN FirstOccurrences(Tail(seq), seen)
  ELSE <<Head(seq)>> \o FirstOccurrences(Tail(seq), seen \cup {Head(seq)})
DistinctTerms == FirstOccurrences(AllTokens(ingested), {})

\* C13: the k-th distinct term seen has termid k-1, whatever was seen later,
\* the dictionary holds exactly the terms seen, and the counter returned by
\* process() is the number of distinct terms seen.
C13_DenseTermids ==
  /\ termid = Len(DistinctTerms)
  /\ DOMAIN index.dictionary = Range(DistinctTerms)
  /\ \A k \in 1 .. Len(DistinctTerms) : index.dictionary[DistinctTerms[k]] = k - 1

\* both terms seen, "b" first, and seen again in later documents
C13_Witness ==
  /\ termid = 2 /\ Len(ingested) >= 3
  /\ DistinctTerms = <<"b", "a">>
  /\ index.pointers.cf[0] >= 3


\* the step moves term t's docid buffer from the scratch size to the block size
Promotes(t) ==
  /\ data.buffer.valueLength[t] < BLOCK_SIZE
  /\ data'.buffer.valueLength[t] >= BLOCK_SIZE

NewBlocks ==
  UNION {{appended'[t][i] : i \in (Len(appended[t]) + 1) .. Len(appended'[t])} :
           t \in TermIds}
\* the reqspace word of the block at `pointer`
BlockReqspace(pool, pointer) ==
  Word(pool, DECODE_SEGMENT(pointer), DECODE_OFFSET(pointer))
\* where a block of `reqspace` words goes when the cursor is at `cursor`
Placed(reqspace, cursor) ==
  IF reqspace > MAX_INT_VALUE - DECODE_OFFSET(cursor)
    THEN ENCODE_POINTER(DECODE_SEGMENT(cursor) + 1, 0)
    ELSE cursor
\* the blocks of S, lowest address first, each lie where the cursor rule puts
\* them and inside their arena, and the pool's cursor ends behind the last
RECURSIVE FollowsCursor(_, _, _)
FollowsCursor(pool, S, cursor) ==
  IF S = {} THEN ENCODE_POINTER(pool.segment, pool.offset) = cursor
  ELSE \E p \in S :
         /\ \A q \in S : p <= q
         /\ p = Placed(BlockReqspace(pool, p), cursor)
         /\ DECODE_OFFSET(p) + BlockReqspace(pool, p) <= MAX_INT_VALUE
         /\ FollowsCursor(pool, S \ {p}, p + BlockReqspace(pool, p))

\* C15: every append puts its block at (segment+1, 0) if reqspace > C - offset
\* and at the cursor otherwise, a block with reqspace = C - offset included,
\* so that each block ends inside its arena.
C15_RollRule ==
  [][FollowsCursor(index'.pool, NewBlocks,
                   ENCODE_POINTER(index.pool.segment, index.pool.offset))]_vars

\* a block fills its arena to the last word and the next one starts the
\* following arena
C15_Witness ==
  \E t, u \in TermIds :
    \E i \in 1 .. Len(appended[t]), j \in 1 .. Len(appended[u]) :
       /\ DECODE_OFFSET(appended[t][i]) + BlockReqspace(index.pool, appended[t][i])
            = MAX_INT_VALUE
       /\ appended[u][j]
            = ENCODE_POINTER(DECODE_SEGMENT(appended[t][i]) + 1, 0)


\* C16: after any sequence of appends the pool's current segment is an
\* allocated arena, segment < numberOfPools.
C16_SegmentAllocated == Allocated(index.pool)


\* the address a = <<segment, offset>> lies in the block at `pointer`
InBlock(pool, pointer, a) ==
  /\ a[1] = DECODE_SEGMENT(pointer)
  /\ a[2] >= DECODE_OFFSET(pointer)
  /\ a[2] < DECODE_OFFSET(pointer) + BlockReqspace(pool, pointer)
\* the step has stored to the word at address a
Written(a) ==
  \/ a \notin DOMAIN index.pool.pool
  \/ index'.pool.pool[a] # index.pool.pool[a]
\* a is the next_segment or next_offset word of the last block of the chain of
\* a term that gets a block in this step
TailLinkWord(a) ==
  \E t \in TermIds :
     /\ Len(appended[t]) >= 1
     /\ Len(appended'[t]) > Len(appended[t])
     /\ a[1] = DECODE_SEGMENT(appended[t][Len(appended[t])])
     /\ a[2] - DECODE_OFFSET(appended[t][Len(appended[t])]) \in {1, 2}

\* the stores of one step, against the set nb of the blocks the step appends
StoresWithin(nb) ==
  /\ \A a \in DOMAIN index'.pool.pool :
       Written(a) =>
          \/ \E p \in nb : InBlock(index'.pool, p, a)
          \/ index.pool.reverse = 0 /\ TailLinkWord(a)
  /\ \A a \in DOMAIN index.pool.pool :
       /\ a \in DOMAIN index'.pool.pool
       /\ \A p \in nb : ~InBlock(index'.pool, p, a)
       /\ Written(a) =>
            \A t \in TermIds :
               \A i \in 1 .. Len(appended[t]) :
                  InBlock(index.pool, appended[t][i], a) =>
                     i = Len(appended[t]) /\ index.pool.reverse = 0
AppendOnlyStep ==
  index'.pool # index.pool => \E nb \in {NewBlocks} : StoresWithin(nb)
\* C18: the appends of a step write only inside the new blocks' ranges and, in
\* forward mode only, to the next words of the previous tail block of the
\* term; the new ranges hold no word written before, and a block whose
\* successor is linked (in reverse mode: every block) keeps all its words.
C18_AppendOnly == [][AppendOnlyStep]_vars

\* both terms have chains of several blocks, one of them continued in the next
\* arena
C18_Witness ==
  /\ pc = "done"
  /\ \A t \in TermIds : Len(appended[t]) >= 2
  /\ \E t \in TermIds :
       DECODE_SEGMENT(appended[t][1]) # DECODE_SEGMENT(appended[t][Len(appended[t])])


\* C19: the pool read back by readSegmentPool from the file writeSegmentPool
\* wrote has the written segment, offset, reverse, bloomEnabled, nbHash and
\* bitsPerElement and the same word at every address of the arenas below
\* `segment` and of arena `segment` below `offset`; readReverseFlag and
\* readBloomStats return the written flags.
C19_PoolRoundTrip ==
  /\ pc = "loaded" =>
       /\ retrieval.pool.segment = index.pool.segment
       /\ retrieval.pool.offset = index.pool.offset
       /\ retrieval.pool.reverse = index.pool.reverse
       /\ retrieval.pool.bloomEnabled = index.pool.bloomEnabled
       /\ retrieval.pool.nbHash = index.pool.nbHash
       /\ retrieval.pool.bitsPerElement = index.pool.bitsPerElement
       /\ \A a \in (DOMAIN index.pool.pool) \cup (DOMAIN retrieval.pool.pool) :
            /\ a[1] < index.pool.segment \/ (a[1] = index.pool.segment /\ a[2] < index.pool.offset)
            /\ Word(retrieval.pool, a[1], a[2]) = Word(index.pool, a[1], a[2])
  /\ file # NULL =>
       /\ readReverseFlag(file) = index.pool.reverse
       /\ readBloomStats(file).bloomEnabled = index.pool.bloomEnabled
       /\ readBloomStats(file).nbHash = index.pool.nbHash
       /\ readBloomStats(file).bitsPerElement = index.pool.bitsPerElement

\* a pool with blocks in a full arena and in the current one, a reverse index
\* without Bloom filters whose nbHash was never set, has been read back
C19_Witness ==
  /\ pc = "loaded"
  /\ index.pool.segment = 1 /\ index.pool.offset > 0
  /\ \E a \in DOMAIN retrieval.pool.pool : a[1] = 0 /\ retrieval.pool.pool[a] # 0
  /\ \E a \in DOMAIN retrieval.pool.pool : a[1] = 1 /\ retrieval.pool.pool[a] # 0
  /\ retrieval.pool.reverse = 1
  /\ retrieval.pool.bloomEnabled = 0 /\ retrieval.pool.nbHash = 7


\* the chain of term t in the pool the postings were copied into
CopiedChain(r, t) == ChainFrom(r.pool, r.heads[t], MaxDocs + 1)
\* block by block, the chains sc of pool `src` and dc of pool `dst` have the
\* same reqspace and the same words but for next_segment and next_offset
SameBlocks(src, sc, dst, dc) ==
  /\ Len(sc) = Len(dc)
  /\ \A i \in 1 .. Len(sc) :
       /\ BlockReqspace(dst, dc[i]) = BlockReqspace(src, sc[i])
       /\ \A k \in {0} \cup (3 .. (BlockReqspace(src, sc[i]) - 1)) :
            Word(dst, DECODE_SEGMENT(dc[i]), DECODE_OFFSET(dc[i]) + k)
              = Word(src, DECODE_SEGMENT(sc[i]), DECODE_OFFSET(sc[i]) + k)
\* the step is a readPostingsForTerm for term t, whose head pointer is defined
Copies(t) ==
  /\ pc = "open" /\ pc' = "open"
  /\ retrieval'.read = Append(retrieval.read, t)
  /\ index.pointers.headPointers[t] # UNDEFINED_POINTER
\* dc, the chain from the returned pointer, is what a readPostingsForTerm of
\* the chain sc leaves in the destination pool
CopyOf(sc, dc) ==
  /\ SameBlocks(index.pool, sc, retrieval'.pool, dc)
  /\ StrictlyIncreasing(dc)
  /\ BlockNextSegment(retrieval'.pool, dc[Len(dc)]) = UNKNOWN_SEGMENT
  /\ FollowsCursor(retrieval'.pool, Range(dc),
                   ENCODE_POINTER(retrieval.pool.segment, retrieval.pool.offset))
  /\ \A a \in DOMAIN retrieval'.pool.pool :
       IF a \in DOMAIN retrieval.pool.pool
         THEN retrieval'.pool.pool[a] = retrieval.pool.pool[a]
         ELSE \E i \in 1 .. Len(dc) : InBlock(retrieval'.pool, dc[i], a)
CopiedExactly(t) ==
  \E sc \in {Chain(t)} : \E dc \in {CopiedChain(retrieval', t)} : CopyOf(sc, dc)

\* C20: readPostingsForTerm(pool, head, file) leaves in the destination pool,
\* from the cursor on and in chain order, one block per block of the chain that
\* starts at head, with the same reqspace and payload words, each linked to
\* the copy of its successor and the last to nothing, writes nothing else,
\* and returns the pointer of the first copy; forward and reverse, with rolls.
C20_ChainCopied ==
  [][\A t \in TermIds : Copies(t) => CopiedExactly(t)]_vars

\* the chains of both terms have been copied, one of several blocks with its
\* copies in two arenas, from a reverse index
C20_Witness ==
  /\ pc = "open" /\ Len(retrieval.read) = 2
  /\ retrieval.pool.reverse = 1
  /\ \A t \in TermIds : index.pointers.headPointers[t] # UNDEFINED_POINTER
  /\ \E t \in TermIds :
       /\ Len(CopiedChain(retrieval, t)) >= 2
       /\ retrieval.heads[t] # index.pointers.headPointers[t]
       /\ DECODE_SEGMENT(CopiedChain(retrieval, t)[1])
            # DECODE_SEGMENT(CopiedChain(retrieval, t)[Len(CopiedChain(retrieval, t))])


\* ------------------------------------------------- the document vectors
\* DocumentVector.h 49-57: createDocumentVector; calloc leaves every slot NULL
createDocumentVector(initialSize) ==
  [document |-> [i \in 1 .. initialSize |-> NULL],
   length   |-> Zeros(initialSize),
   capacity |-> initialSize]

\* DocumentVector.h 71-84: expandDocumentVector; the loop's `tempLength = 0`
\* assigns the pointer, so the table is left with a null length array
expandDocumentVector(vectors) ==
  [document |-> [i \in 1 .. (vectors.capacity * 2) |->
                   IF i <= vectors.capacity THEN vectors.document[i] ELSE NULL],
   length   |-> NULL,
   capacity |-> vectors.capacity * 2]

\* the sub-block count without the residual sub-block
NumSubBlocks_NoResidue(nb, res) == nb

\* DocumentVector.h 117-133: i after the loop over the nb full sub-blocks and
\* the i++ of the residual one
NumSubBlocks(nb, res) == IF res > 0 THEN nb + 1 ELSE nb

\* DocumentVector.h 117-121: block[csize] = tempSize; csize += tempSize + 1
RECURSIVE FullSubBlocks(_, _, _)
FullSubBlocks(document, i, nb) ==
  IF i >= nb THEN << >>
  ELSE LET block == OPT4(Slice(document, i * BLOCK_SIZE, BLOCK_SIZE), BLOCK_SIZE, 0)
       IN  <<Len(block)>> \o block \o FullSubBlocks(document, i + 1, nb)

\* DocumentVector.h 122-130: the residue is copied into a zeroed array of
\* BLOCK_SIZE integers, of which res are compressed
ResidualSubBlock(document, nb, res) ==
  IF res > 0
    THEN LET a     == Slice(document, nb * BLOCK_SIZE, res) \o Zeros(BLOCK_SIZE - res)
             block == OPT4(a, res, 0)
         IN  <<Len(block)>> \o block
    ELSE << >>

\* DocumentVector.h 112-136: the words of vectors->document[k]
VectorWords(document, length) ==
  <<NumSubBlocks(length \div BLOCK_SIZE, length % BLOCK_SIZE)>>
    \o FullSubBlocks(document, 0, length \div BLOCK_SIZE)
    \o ResidualSubBlock(document, length \div BLOCK_SIZE, length % BLOCK_SIZE)

\* DocumentVector.h 106-138: addDocumentVector on a table that holds slot k
\* and a length array
addDocumentVector(vectors, document, length, k) ==
  [(IF k >= vectors.capacity THEN expandDocumentVector(vectors) ELSE vectors)
     EXCEPT !.length   = IF k < Len(@) THEN Put(@, k, Len(VectorWords(document, length)))
                         ELSE @,
            !.document = IF k < Len(@) THEN Put(@, k, VectorWords(document, length))
                         ELSE @]

\* DocumentVector.h 131-132: a store through the null length array that an
\* expansion leaves, or into a slot beyond the table
StoresOutside(vectors, k) == k >= vectors.capacity \/ k >= Len(vectors.length)

\* DocumentVector.h 96-102: buffer after the loop over the nb sub-blocks; pos
\* is the index of the sub-block's size word
RECURSIVE DecodeSubBlocks(_, _, _, _)
DecodeSubBlocks(words, i, nb, pos) ==
  IF i >= nb THEN << >>
  ELSE LET out == detailed_p4_decode(Slice(words, pos + 1, At(words, pos)), 0, 0)
       IN  out \o Zeros(BLOCK_SIZE - Len(out))
               \o DecodeSubBlocks(words, i + 1, nb, pos + At(words, pos) + 1)

\* DocumentVector.h 90-104: getDocumentVector; the caller's array is left as
\* it was when the docid has no vector, and words copied from beyond the
\* nb * BLOCK_SIZE integers of buffer are whatever the heap held
getDocumentVector(vectors, document, length, k, heap) ==
  IF k >= vectors.capacity \/ vectors.document[k + 1] = NULL THEN document
  ELSE LET buffer == DecodeSubBlocks(vectors.document[k + 1], 0,
                                     At(vectors.document[k + 1], 0), 1)
       IN  [i \in 1 .. length |-> IF i <= Len(buffer) THEN buffer[i] ELSE heap]


\* ---------------------------------------- the runs of the document vectors
\* the docids and the documents of the runs: every length up
\* to two sub-blocks and a residue, in two patterns of termids
VectorDocIds == 0 .. 2
VectorLengths == 0 .. (2 * BLOCK_SIZE + 1)
VectorLines == {[i \in 1 .. n |-> (i + p) % 3] : n \in VectorLengths, p \in {0, 1}}

InitVectors ==
  \E initialSize \in {1, 2} :
     /\ index = [vectors |-> createDocumentVector(initialSize)]
     /\ data = NULL
     /\ termid = 0
     /\ pc = "vectors"
     /\ order = "ascending"
     /\ ingested = << >>
     /\ appended = << >>
     /\ file = NULL
     /\ retrieval = NULL
     /\ inflight = NULL

\* indexer.c 200-202: the document's termids are pushed under its docid; a
\* store outside the table kills the process or goes unseen
AddVector(k, document) ==
  /\ pc = "vectors"
  /\ \/ /\ index' = [index EXCEPT !.vectors = addDocumentVector(@, document, Len(document), k)]
        /\ ingested' = IF k < Len(index'.vectors.document)
                         THEN (k :> document) @@ ingested ELSE ingested
        /\ UNCHANGED <<data, termid, pc, order, appended, file, retrieval, inflight>>
     \/ StoresOutside(index.vectors, k) /\ Killed

\* a feature extractor asks for the vector of docid k into an array of length
\* integers
GetVector(k, length, heap) ==
  /\ pc = "vectors"
  /\ pc' = "got"
  /\ retrieval' = [k |-> k, length |-> length,
                   document |-> getDocumentVector(index.vectors, Zeros(length), length, k, heap)]
  /\ UNCHANGED <<index, data, termid, order, ingested, appended, file, inflight>>

NextVectors ==
  \/ \E k \in VectorDocIds, document \in VectorLines : AddVector(k, document)
  \/ \E k \in VectorDocIds, length \in VectorLengths, heap \in MallocGarbage :
        GetVector(k, length, heap)

SpecVectors == InitVectors /\ [][NextVectors]_vars


\* ------------------------------------------------------------------ C21
\* the indices of the size words of the sub-blocks of a stored vector, and
\* the index after the last sub-block
RECURSIVE SubBlockStarts(_, _, _)
SubBlockStarts(words, pos, nb) ==
  IF nb = 0 \/ pos >= Len(words) THEN <<pos>>
  ELSE <<pos>> \o SubBlockStarts(words, pos + At(words, pos) + 1, nb - 1)

\* termids j * B .. min(n, (j + 1) * B) - 1 of a document
Chunk(document, j) ==
  Slice(document, j * BLOCK_SIZE, Min(BLOCK_SIZE, Len(document) - j * BLOCK_SIZE))

\* the words stored for a document: word 0 is ceil(n / B), the sub-blocks
\* follow one another to the end, each after its count of compressed words,
\* and sub-block j is the compressed chunk j
LaidOut(words, document, starts) ==
  /\ At(words, 0) = (Len(document) + BLOCK_SIZE - 1) \div BLOCK_SIZE
  /\ Len(starts) = At(words, 0) + 1
  /\ starts[Len(starts)] = Len(words)
  /\ \A j \in 0 .. (At(words, 0) - 1) :
       /\ At(words, starts[j + 1]) = starts[j + 2] - starts[j + 1] - 1
       /\ Slice(words, starts[j + 1] + 1, At(words, starts[j + 1]))
            = OPT4(Chunk(document, j), Len(Chunk(document, j)), 0)

StoredRight(k) ==
  \E words \in {index.vectors.document[k + 1]} :
     LaidOut(words, ingested[k], SubBlockStarts(words, 1, At(words, 0)))

GotRight ==
  (pc = "got" /\ retrieval.k \in DOMAIN ingested
              /\ retrieval.length = Len(ingested[retrieval.k]))
    => retrieval.document = ingested[retrieval.k]

OthersKept ==
  \A k \in VectorDocIds :
     (k < index.vectors.capacity
        /\ index'.vectors.document[k + 1] # index.vectors.document[k + 1])
       => \A j \in VectorDocIds \ {k} :
             j < index.vectors.capacity
               => index'.vectors.document[j + 1] = index.vectors.document[j + 1]

VectorStep ==
  /\ \A k \in DOMAIN ingested' : StoredRight(k)'
  /\ GotRight'
  /\ OthersKept

\* C21: a vector added under a docid below the capacity is stored as
\* ceil(n / B) sub-blocks, word 0 holding their number and each sub-block
\* after its count of compressed words; getDocumentVector with the same n
\* gives back the n termids in order; the vectors of the other docids stay
C21_VectorRoundTrip == [][VectorStep]_vars

C21_Witness ==
  /\ pc = "got"
  /\ index.vectors.length # NULL
  /\ retrieval.k \in DOMAIN ingested
  /\ retrieval.length = Len(ingested[retrieval.k])
  /\ retrieval.length = 2 * BLOCK_SIZE + 1
  /\ retrieval.document = ingested[retrieval.k]
  /\ \E j \in DOMAIN ingested : j # retrieval.k /\ Len(ingested[j]) = BLOCK_SIZE


\* ----------------------------------------------------------- the queries
\* retrieval.c 30-37: enum Algorithm
SVS == 0
WAND == 1
MBWAND == 2
BWAND_OR == 3
BWAND_AND == 4

\* FixedIntCounter.h: the indices after pos whose value is not the default 0,
\* the least of them or -1
nextIndexFixedIntCounter(counter, pos) ==
  IF \E i \in DOMAIN counter : i > pos /\ counter[i] # 0
    THEN CHOOSE i \in DOMAIN counter :
           /\ i > pos /\ counter[i] # 0
           /\ \A j \in DOMAIN counter : (j > pos /\ counter[j] # 0) => i <= j
    ELSE -1

\* tokens kept whenever the dictionary knows them
RECURSIVE KeptTerms_HeadIgnored(_, _, _)
KeptTerms_HeadIgnored(dictionary, pointers, tokens) ==
  IF tokens = << >> THEN << >>
  ELSE (IF getTermId(dictionary, Head(tokens)) >= 0
          THEN <<getTermId(dictionary, Head(tokens))>> ELSE << >>)
         \o KeptTerms_HeadIgnored(dictionary, pointers, Tail(tokens))

\* retrieval.c 205-216: queries[i][pos++] = termid for the tokens that the
\* dictionary knows and whose term has a head pointer
RECURSIVE KeptTerms(_, _, _)
KeptTerms(dictionary, pointers, tokens) ==
  IF tokens = << >> THEN << >>
  ELSE (IF getTermId(dictionary, Head(tokens)) >= 0
          THEN IF pointers.headPointers[getTermId(dictionary, Head(tokens))]
                    # UNDEFINED_POINTER
                 THEN <<getTermId(dictionary, Head(tokens))>>
                 ELSE << >>
          ELSE << >>)
         \o KeptTerms(dictionary, pointers, Tail(tokens))

\* retrieval.c 200-220: the loop over the lines of the query file; r holds
\* queries, queryLength and idToIndexMap
RECURSIVE ReadQueryLines(_, _, _, _, _)
ReadQueryLines(dictionary, pointers, lines, i, r) ==
  IF i >= Len(lines) THEN r
  ELSE ReadQueryLines(dictionary, pointers, lines, i + 1,
         [queries      |-> Append(r.queries,
                                  KeptTerms(dictionary, pointers, At(lines, i).tokens)),
          idToIndexMap |-> [r.idToIndexMap EXCEPT ![At(lines, i).id] = i],
          queryLength  |-> [r.queryLength EXCEPT ![At(lines, i).id] =
                              Len(KeptTerms(dictionary, pointers, At(lines, i).tokens))]])

\* retrieval.c 237-244: minimumDf over qdf[0 .. qlen-1]
RECURSIVE MinimumDf(_, _, _)
MinimumDf(qdf, i, minimumDf) ==
  IF i >= Len(qdf) THEN minimumDf
  ELSE MinimumDf(qdf, i + 1, IF At(qdf, i) < minimumDf THEN At(qdf, i) ELSE minimumDf)

\* retrieval.c 252-258: the inner loop; the last j with qdf[j] below every
\* earlier minimum, 0 of the calloc when there is none
RECURSIVE SmallestDfIndex(_, _, _, _)
SmallestDfIndex(qdf, j, minDf, at) ==
  IF j >= Len(qdf) THEN at
  ELSE IF At(qdf, j) < minDf THEN SmallestDfIndex(qdf, j + 1, At(qdf, j), j)
       ELSE SmallestDfIndex(qdf, j + 1, minDf, at)

\* SortedDfIndex without qdf[sortedDfIndex[i]] = 0xFFFFFFFF
RECURSIVE SortedDfIndex_Unmarked(_, _, _, _)
SortedDfIndex_Unmarked(algorithm, qdf, i, sorted) ==
  IF i >= Len(qdf) THEN sorted
  ELSE IF algorithm \in {SVS, BWAND_AND, BWAND_OR}
    THEN SortedDfIndex_Unmarked(algorithm, qdf, i + 1,
                                Append(sorted, SmallestDfIndex(qdf, 0, MAX_INT_VALUE, 0)))
    ELSE SortedDfIndex_Unmarked(algorithm, qdf, i + 1, Append(sorted, i))

\* retrieval.c 247-267: sortedDfIndex; a chosen entry of qdf is set to the
\* largest unsigned value
RECURSIVE SortedDfIndex(_, _, _, _)
SortedDfIndex(algorithm, qdf, i, sorted) ==
  IF i >= Len(qdf) THEN sorted
  ELSE IF algorithm \in {SVS, BWAND_AND, BWAND_OR}
    THEN SortedDfIndex(algorithm,
                       Put(qdf, SmallestDfIndex(qdf, 0, MAX_INT_VALUE, 0), MAX_INT_VALUE),
                       i + 1, Append(sorted, SmallestDfIndex(qdf, 0, MAX_INT_VALUE, 0)))
    ELSE SortedDfIndex(algorithm, qdf, i + 1, Append(sorted, i))

\* retrieval.c 229-275: what one pass of the evaluation loop hands to the
\* algorithm for the query of index id
QueryCall(pointers, algorithm, id, query, qlen, sorted) ==
  [id            |-> id,
   qlen          |-> qlen,
   query         |-> query,
   minimumDf     |-> MinimumDf([i \in 1 .. qlen |-> pointers.df[query[i]]], 1,
                               pointers.df[query[1]]),
   qHeadPointers |-> [i \in 1 .. qlen |-> pointers.headPointers[query[sorted[i] + 1]]],
   qdf           |-> [i \in 1 .. qlen |-> pointers.df[query[sorted[i] + 1]]]]

\* the query files of the runs: one or two queries under different ids, with
\* tokens of the collection, a token "c" of no document, and repeated tokens
QueryTexts == {<<"c">>, <<"a", "b">>, <<"b", "c", "a">>, <<"b", "a", "b">>}
QueryFiles ==
  {<<[id |-> id, qlen |-> Len(tokens), tokens |-> tokens]>> :
     id \in {0, 2}, tokens \in QueryTexts}
    \cup {<<[id |-> ids[1], qlen |-> Len(t1), tokens |-> t1],
            [id |-> ids[2], qlen |-> Len(t2), tokens |-> t2]>> :
            ids \in {<<0, 2>>, <<2, 0>>}, t1 \in QueryTexts, t2 \in QueryTexts}

InitQuery ==
  \E dfCutoff \in {0, 1}, bloomArgs \in BloomArgs(0) :
     InitMain(NONPOSITIONAL, 0, 0, bloomArgs, dfCutoff, 1, "ascending")

\* retrieval.c 193-221: the query file is read against the loaded index
ReadQueries ==
  /\ pc = "loaded"
  /\ \E algorithm \in {SVS, WAND, MBWAND, BWAND_OR, BWAND_AND}, queryFile \in QueryFiles :
       \E r \in {ReadQueryLines(index.dictionary, index.pointers, queryFile, 0,
                                [queries      |-> << >>,
                                 idToIndexMap |-> [id \in 0 .. 2 |-> 0],
                                 queryLength  |-> [id \in 0 .. 2 |-> 0]])} :
          retrieval' = [pool |-> retrieval.pool, algorithm |-> algorithm,
                        queryFile |-> queryFile, queries |-> r.queries,
                        idToIndexMap |-> r.idToIndexMap, queryLength |-> r.queryLength,
                        id |-> -1, calls |-> << >>]
  /\ pc' = "queries"
  /\ UNCHANGED <<index, data, termid, order, ingested, appended, file, inflight>>

\* retrieval.c 229-275: one pass of the loop over the queries that are not
\* empty, up to the call of the algorithm
EvaluateQuery ==
  /\ pc = "queries"
  /\ \E id \in {nextIndexFixedIntCounter(retrieval.queryLength, retrieval.id)} :
       IF id = -1
         THEN pc' = "answered" /\ UNCHANGED retrieval
         ELSE /\ \E query \in {Slice(At(retrieval.queries, retrieval.idToIndexMap[id]), 0,
                                     retrieval.queryLength[id])} :
                   retrieval' =
                     [retrieval EXCEPT
                        !.id = id,
                        !.calls = Append(@,
                          QueryCall(index.pointers, retrieval.algorithm, id, query,
                                    Len(query),
                                    SortedDfIndex(retrieval.algorithm,
                                                  [i \in 1 .. Len(query) |->
                                                     index.pointers.df[query[i]]],
                                                  0, << >>)))]
              /\ UNCHANGED pc
  /\ UNCHANGED <<index, data, termid, order, ingested, appended, file, inflight>>

NextQuery ==
  ProcessDisk \/ EndOfStream \/ WriteIndex \/ LoadIndex \/ ReadQueries \/ EvaluateQuery

SpecQuery == InitQuery /\ [][NextQuery]_vars


\* ------------------------------------------------------------------ C22
\* a token of the dictionary whose term has a head pointer
HasPostings(token) ==
  /\ token \in DOMAIN index.dictionary
  /\ index.pointers.headPointers[index.dictionary[token]] # UNDEFINED_POINTER

\* the termids of the tokens of a query line that have postings, in order
TermidsOfKept(line) ==
  [i \in 1 .. Len(SelectSeq(line.tokens, HasPostings)) |->
     index.dictionary[SelectSeq(line.tokens, HasPostings)[i]]]

EvaluatedAsKept(call) ==
  \E i \in 1 .. Len(retrieval.queryFile) :
     \E kept \in {TermidsOfKept(retrieval.queryFile[i])} :
        /\ retrieval.queryFile[i].id = call.id
        /\ kept # << >>
        /\ call.query = kept
        /\ call.qlen = Len(kept)

\* C22: the queries handed to the algorithm are those with a token that is in
\* the dictionary and has a head pointer, each once, with exactly these
\* tokens' termids in their order and their number as the query length; a
\* query without such a token is not evaluated
C22_KeptTokens ==
  pc \in {"queries", "answered"} =>
    /\ \A c \in 1 .. Len(retrieval.calls) :
         /\ EvaluatedAsKept(retrieval.calls[c])
         /\ \A d \in 1 .. Len(retrieval.calls) :
              retrieval.calls[d].id = retrieval.calls[c].id => d = c
    /\ pc = "answered" =>
         \A i \in 1 .. Len(retrieval.queryFile) :
            TermidsOfKept(retrieval.queryFile[i]) # << >> =>
              \E c \in 1 .. Len(retrieval.calls) :
                 retrieval.calls[c].id = retrieval.queryFile[i].id

C22_Witness ==
  /\ pc = "answered"
  /\ Len(retrieval.queryFile) = 2
  /\ retrieval.queryFile[1].tokens = <<"b", "c", "a">>
  /\ retrieval.queryFile[2].tokens = <<"c">>
  /\ "a" \in DOMAIN index.dictionary
  /\ index.pointers.headPointers[index.dictionary["a"]] = UNDEFINED_POINTER
  /\ Len(retrieval.calls) = 1
  /\ retrieval.calls[1].query = <<index.dictionary["b"]>>
  /\ retrieval.calls[1].qlen = 1


\* ------------------------------------------------------------------ C23
\* SegmentPool.h 133-140: word 4 of the first block is read as csize
isTermFrequencyPresent(pool) ==
  IF Word(pool, 0, 4) + 5 = Word(pool, 0, 0) THEN 0 ELSE 1

\* SegmentPool.h 145-156
isPositional(pool) ==
  IF Word(pool, 0, 4) + 5 = Word(pool, 0, 0) THEN 0
  ELSE IF Word(pool, 0, 4) + Word(pool, 0, Word(pool, 0, 4) + 5) + 6 = Word(pool, 0, 0)
         THEN 0
         ELSE 1

\* a block has been written at the start of the pool
FirstBlockWritten == <<0, 0>> \in DOMAIN index.pool.pool

\* C23: once the pool has a first block, isTermFrequencyPresent is 0 exactly
\* for a non-positional index and isPositional is 1 exactly for a positional
\* one, with and without Bloom filters
C23_ModeRecovered ==
  FirstBlockWritten =>
    /\ isTermFrequencyPresent(index.pool) = (IF data.positional = NONPOSITIONAL THEN 0 ELSE 1)
    /\ isPositional(index.pool) = (IF data.positional = POSITIONAL THEN 1 ELSE 0)


\* ------------------------------------------------------------------ C24
\* C24: no term's docid buffer is ever longer than max_blocks * B integers
C24_CapacityBounded ==
  \A t \in TermIds : data.buffer.valueLength[t] <= data.maxBlocks


\* ------------------------------------------------------------------ C25
\* docid d is in the docid buffer or in the chain of some term
Indexed(d) ==
  \E t \in TermIds :
     \/ \E i \in 1 .. Min(data.buffer.valuePosition[t], Len(data.buffer.docid[t])) :
           data.buffer.docid[t][i] = d
     \/ \E p \in {Postings(t)} : \E i \in 1 .. Len(p) : p[i] = d

\* the docid of document i of the input does not follow its predecessor's in
\* the direction of the index
OutOfOrder(i) ==
  /\ i > 1
  /\ ~LESS_THAN(ingested[i - 1].docid, ingested[i].docid, index.pool.reverse)

\* C25: a document whose docid is not strictly after the previous document's
\* docid in the direction of the index (greater in forward mode, smaller in
\* reverse mode) is not indexed: its docid is in no buffer and in no chain
C25_OutOfOrderRejected ==
  \A i \in 1 .. Len(ingested) : OutOfOrder(i) => ~Indexed(ingested[i].docid)


\* ------------------------------------------------------------------ C26
\* indexer.c 410: runs started with -mb 0 or -mb -1
InitConfig ==
  \E reverse \in {0, 1}, bloomEnabled \in {0, 1}, dfCutoff \in DfCutoffArgs, mb \in {-1, 0} :
     \E bloomArgs \in BloomArgs(bloomEnabled) :
        InitMain(NONPOSITIONAL, reverse, bloomEnabled, bloomArgs, dfCutoff, mb, "ascending")

SpecConfig == InitConfig /\ [][Next]_vars

\* C26: with max_blocks below 1 no document is processed and no block is
\* written to the pool
C26_MaxBlocksRejected ==
  data.maxBlocks < BLOCK_SIZE =>
    /\ index.pointers.totalDocs = 0
    /\ DOMAIN index.pool.pool = {}


\* ------------------------------------------- the stores of an append, one by one
\* SegmentPool.h 207-223 (303-320, 442-465): the words of the block at p are
\* stored from its reqspace word upwards, the next words as UNKNOWN_SEGMENT, 0
BlockWrites(after, p) ==
  LET at(i) == <<DECODE_SEGMENT(p), DECODE_OFFSET(p) + i>>
      stored == SelectSeq([i \in 1 .. BlockReqspace(after, p) |-> i - 1],
                          LAMBDA i : at(i) \in DOMAIN after.pool)
  IN  [n \in 1 .. Len(stored) |->
         [kind |-> "word", a |-> at(stored[n]),
          v |-> IF stored[n] = 1 THEN UNKNOWN_SEGMENT
                ELSE IF stored[n] = 2 THEN 0 ELSE after.pool[at(stored[n])]]]

\* SegmentPool.h 225-233 (322-330, 467-475): if(lastSegment >= 0), the next
\* words of the previous block, in reverse mode those of the new block
LinkWrites(reverse, tailPointer, p) ==
  IF tailPointer = UNDEFINED_POINTER THEN << >>
  ELSE IF reverse = 0
    THEN <<[kind |-> "word", v |-> DECODE_SEGMENT(p),
            a |-> <<DECODE_SEGMENT(tailPointer), DECODE_OFFSET(tailPointer) + 1>>],
           [kind |-> "word", v |-> DECODE_OFFSET(p),
            a |-> <<DECODE_SEGMENT(tailPointer), DECODE_OFFSET(tailPointer) + 2>>]>>
    ELSE <<[kind |-> "word", v |-> DECODE_SEGMENT(tailPointer),
            a |-> <<DECODE_SEGMENT(p), DECODE_OFFSET(p) + 1>>],
           [kind |-> "word", v |-> DECODE_OFFSET(tailPointer),
            a |-> <<DECODE_SEGMENT(p), DECODE_OFFSET(p) + 2>>]>>

\* indexer.c 311-313 (334-336, and the dumps): the head pointer is set after
\* the call returns, in reverse mode or when the term has none
HeadWrites(reverse, head, t, p) ==
  IF reverse # 0 \/ head = UNDEFINED_POINTER
    THEN <<[kind |-> "head", t |-> t, v |-> p]>> ELSE << >>

\* the stores of an append with the link stored before the block
AppendWrites_LinkFirst(after, tailPointer, head, t, p) ==
  LinkWrites(after.reverse, tailPointer, p) \o BlockWrites(after, p)
    \o HeadWrites(after.reverse, head, t, p)

\* the stores of one append and of the head update that follows it, in the
\* order of the source
AppendWrites(after, tailPointer, head, t, p) ==
  BlockWrites(after, p) \o LinkWrites(after.reverse, tailPointer, p)
    \o HeadWrites(after.reverse, head, t, p)

\* the stores of the appends of one call of process or of the dump: S holds
\* <<p, t, i>> for the i-th block ever appended to term t, at p; blocks are
\* appended at the cursor, so the lowest address is the earliest append
RECURSIVE WritesOf(_, _, _, _)
WritesFrom(after, log, S, heads, b) ==
  AppendWrites(after, IF b[3] = 1 THEN UNDEFINED_POINTER ELSE log[b[2]][b[3] - 1],
               heads[b[2]], b[2], b[1])
    \o WritesOf(after, log, S \ {b},
                [heads EXCEPT ![b[2]] = IF after.reverse # 0 \/ @ = UNDEFINED_POINTER
                                          THEN b[1] ELSE @])
WritesOf(after, log, S, heads) ==
  IF S = {} THEN << >>
  ELSE WritesFrom(after, log, S, heads, CHOOSE b \in S : \A c \in S : b[1] <= c[1])

\* the appends of a call that takes the indexer from its state to s
StepWrites(s) ==
  WritesOf(s.index.pool, s.appended,
           UNION {{<<s.appended[t][i], t, i>> :
                     i \in (Len(appended[t]) + 1) .. Len(s.appended[t])} : t \in TermIds},
           index.pointers.headPointers)

\* the runs whose stores are taken one at a time
InitWrites ==
  \E positional \in {NONPOSITIONAL, TFONLY, POSITIONAL},
     reverse \in {0, 1}, bloomEnabled \in {0, 1}, mb \in {1, 2} :
       \E bloomArgs \in BloomArgs(bloomEnabled) :
          InitMain(positional, reverse, bloomEnabled, bloomArgs,
                   IF positional = POSITIONAL THEN 1 ELSE 0, mb, "ascending")

\* process() is entered with a line: its appends are still to be stored
BeginLine(tokens) ==
  /\ pc = "index"
  /\ index.pointers.totalDocs < MaxDocs
  /\ \E s \in {process(Program, NextDocid, tokens)} :
       inflight' = [writes |-> StepWrites(s), index |-> s.index, data |-> s.data,
                    termid |-> s.termid, appended |-> s.appended, pc |-> "index"]
  /\ ingested' = Append(ingested, [docid |-> NextDocid, tokens |-> tokens])
  /\ pc' = "append"
  /\ UNCHANGED <<index, data, termid, order, appended, file, retrieval>>

\* the dump at the end of the input is entered
BeginDump ==
  /\ pc = "index"
  /\ \E s \in {DumpFrom(Program, -1)} :
       inflight' = [writes |-> StepWrites(s), index |-> s.index, data |-> s.data,
                    termid |-> termid, appended |-> s.appended, pc |-> "done"]
  /\ pc' = "append"
  /\ UNCHANGED <<index, data, termid, order, ingested, appended, file, retrieval>>

\* the next store to the pool or to a head pointer
StoreNext ==
  /\ pc = "append"
  /\ inflight.writes # << >>
  /\ index' = IF Head(inflight.writes).kind = "word"
                THEN [index EXCEPT !.pool.pool =
                        Store(@, Head(inflight.writes).a[1], Head(inflight.writes).a[2],
                              <<Head(inflight.writes).v>>)]
                ELSE [index EXCEPT !.pointers.headPointers[Head(inflight.writes).t] =
                        Head(inflight.writes).v]
  /\ inflight' = [inflight EXCEPT !.writes = Tail(@)]
  /\ UNCHANGED <<data, termid, pc, order, ingested, appended, file, retrieval>>

\* the call returns: cursor, buffers and counters as the call leaves them
Return ==
  /\ pc = "append"
  /\ inflight.writes = << >>
  /\ index' = inflight.index
  /\ data' = inflight.data
  /\ termid' = inflight.termid
  /\ appended' = inflight.appended
  /\ pc' = inflight.pc
  /\ inflight' = NULL
  /\ UNCHANGED <<order, ingested, file, retrieval>>

NextWrites ==
  (\E tokens \in LinesDisk : BeginLine(tokens)) \/ BeginDump \/ StoreNext \/ Return

SpecWrites == InitWrites /\ [][NextWrites]_vars


\* ------------------------------------------------------------------ C27
\* every word of the block at p but its two next words is as the call in
\* progress leaves it
FullyWritten(p) ==
  \A i \in (0 .. (BlockReqspace(inflight.index.pool, p) - 1)) \ {1, 2} :
     Word(index.pool, DECODE_SEGMENT(p), DECODE_OFFSET(p) + i)
       = Word(inflight.index.pool, DECODE_SEGMENT(p), DECODE_OFFSET(p) + i)

\* the blocks reached from the head pointer of t by the next links, as the
\* pool and the head pointers are now
ReachableNow(t) ==
  {ChainFrom(index.pool, index.pointers.headPointers[t], MaxDocs + 1)[i] :
     i \in 1 .. Len(ChainFrom(index.pool, index.pointers.headPointers[t], MaxDocs + 1))}

\* C27: between the stores of an append no block that a head pointer reaches
\* through next links is partially written; the stores taken one by one leave
\* the pool and the head pointers as the call does
C27_LinkedWhenWritten ==
  pc = "append" =>
    /\ \A t \in TermIds : \A p \in ReachableNow(t) : FullyWritten(p)
    /\ inflight.writes = << >> =>
         /\ index.pool.pool = inflight.index.pool.pool
         /\ index.pointers.headPointers = inflight.index.pointers.headPointers

\* a positional block is half written behind a chain in forward mode
C27_Witness ==
  /\ pc = "append"
  /\ index.pool.reverse = 0
  /\ data.positional = POSITIONAL
  /\ \E t \in TermIds :
       /\ appended[t] # << >>
       /\ Len(inflight.appended[t]) > Len(appended[t])
       /\ ReachableNow(t) # {}
       /\ \E p \in {inflight.appended[t][Len(appended[t]) + 1]} :
            /\ Word(index.pool, DECODE_SEGMENT(p), DECODE_OFFSET(p)) # 0
            /\ ~FullyWritten(p)
            /\ p \notin ReachableNow(t)


\* ------------------------------------------------------------------ C28
\* the docids the indexer handed over for the i-th block appended to a term,
\* of the docids of the documents with the term: a block's length at a time
HandedOver(docs, i, p) == Slice(docs, (i - 1) * BLOCK_SIZE, BlockLen(index.pool, p))

\* no docid of the block at p is after the block's max_docid in the ordering
\* of the pool
MaxDocidGreatest(docids, p) ==
  \A n \in 1 .. Len(docids) :
     ~LESS_THAN(BlockMaxDocid(index.pool, p), docids[n], index.pool.reverse)

\* the block read back holds the docids handed over, max_docid among them
ReadBack(docids, decoded, p) ==
  /\ {decoded[n] : n \in 1 .. Len(docids)} = {docids[n] : n \in 1 .. Len(docids)}
  /\ \E n \in 1 .. Len(docids) : docids[n] = BlockMaxDocid(index.pool, p)

\* C28 as stated: with docids ascending in forward mode and descending in
\* reverse mode, max_docid is the greatest docid of each block under the
\* ordering of the pool
C28_MaxDocidInModeOrder ==
  ((index.pool.reverse = 0 /\ order = "ascending")
     \/ (index.pool.reverse # 0 /\ order = "descending"))
    => \A t \in TermIds :
          \E docs \in {DocidsWith(ingested, t)} :
             \A i \in 1 .. Len(appended[t]) :
                MaxDocidGreatest(HandedOver(docs, i, appended[t][i]), appended[t][i])

\* C28, amended: with docids ascending, in forward and in reverse mode, the
\* block read back holds the docids handed over and max_docid is the greatest
\* of them under the ordering of the pool
C28_MaxDocidAscending ==
  order = "ascending"
    => \A t \in TermIds :
          \E docs \in {DocidsWith(ingested, t)} :
             \A i \in 1 .. Len(appended[t]) :
                \E docids \in {HandedOver(docs, i, appended[t][i])} :
                   /\ ReadBack(docids, decompressDocidBlock(index.pool, appended[t][i]),
                               appended[t][i])
                   /\ MaxDocidGreatest(docids, appended[t][i])

C28_Witness ==
  /\ order = "ascending"
  /\ index.pool.reverse # 0
  /\ \E t \in TermIds :
       /\ Len(appended[t]) >= 2
       /\ BlockLen(index.pool, appended[t][2]) = BLOCK_SIZE
       /\ \E docids \in {HandedOver(DocidsWith(ingested, t), 2, appended[t][2])} :
            /\ BlockMaxDocid(index.pool, appended[t][2]) = docids[1]
            /\ docids[1] < docids[BLOCK_SIZE]

\* ------------------------------------------------------------------ C29
\* containsDocid entered at block n of a chain leaves the pointer at the first
\* block from there on whose max_docid is not before docid, and in
\* UNDEFINED_POINTER with the answer false when there is none
StopsAt(chain, n, docid, r) ==
  \E stops \in {{i \in n .. Len(chain) :
                   ~LESS_THAN(BlockMaxDocid(index.pool, chain[i]), docid,
                              index.pool.reverse)}} :
     IF stops = {}
       THEN r.pointer = UNDEFINED_POINTER /\ ~r.result
       ELSE \A i \in stops : (\A j \in stops : i <= j) => r.pointer = chain[i]

\* C29: on an index with Bloom filters, containsDocid leaves *p at the block
\* it stops at, also when it returns true because max_docid == docid, and in
\* UNDEFINED_POINTER when the chain is exhausted
C29_PointerAtStopBlock ==
  (order = "ascending" /\ index.pool.bloomEnabled # 0) =>
    \A t \in TermIds : \A docid \in DocIds :
       \E chain \in {Chain(t)} :
          \A n \in 1 .. Len(chain) :
             StopsAt(chain, n, docid, containsDocid(index.pool, docid, chain[n]))


\* ------------------------------------------------------------------ C30
\* all blocks appended so far
AllBlocks == UNION {{appended[t][i] : i \in 1 .. Len(appended[t])} : t \in TermIds}

\* the words from block p to the next block, or to the cursor of the pool
Extent(p) ==
  (CHOOSE q \in {r \in AllBlocks : r > p}
                 \cup {ENCODE_POINTER(index.pool.segment, index.pool.offset)} :
     \A r \in AllBlocks : r > p => q <= r) - p

\* the words stored in block p at and after word `from` of the block
StoredIn(p, from) ==
  Cardinality({a \in DOMAIN index.pool.pool :
                 /\ a[1] = DECODE_SEGMENT(p)
                 /\ a[2] >= DECODE_OFFSET(p) + from
                 /\ a[2] < DECODE_OFFSET(p) + Extent(p)})

BlockWord(p, i) == Word(index.pool, DECODE_SEGMENT(p), DECODE_OFFSET(p) + i)

\* the words of the Bloom filter of block p, none without Bloom filters
FilterWords(p) ==
  IF index.pool.bloomEnabled # 0 THEN BlockWord(p, BlockWord(p, 4)) ELSE 0

\* 7 + dcsize, + tfcsize + 1 with tf, + positions area + 2 with positions,
\* + the words counted for the filter
ReqspaceWith(p, dcsize, tfcsize, filterPart) ==
  7 + dcsize
    + (IF data.positional # NONPOSITIONAL THEN tfcsize + 1 ELSE 0)
    + (IF data.positional = POSITIONAL
         THEN StoredIn(p, 10 + dcsize + tfcsize)
                - (IF index.pool.bloomEnabled # 0 THEN FilterWords(p) + 1 ELSE 0) + 2
         ELSE 0)
    + filterPart

\* C30 as stated: reqspace is the number of words the block occupies and
\* counts filter_words + 1 only when a Bloom filter is stored
C30_ReqspaceFilterWhenStored ==
  pc # "append" =>
    \A p \in AllBlocks :
       /\ BlockWord(p, 0) = Extent(p)
       /\ BlockWord(p, 0) =
            ReqspaceWith(p, BlockWord(p, 6), BlockWord(p, 7 + BlockWord(p, 6)),
                         IF index.pool.bloomEnabled # 0 THEN FilterWords(p) + 1 ELSE 0)

\* C30, amended: reqspace is the number of words the block occupies and
\* always counts the word of the filter size, which without Bloom filters is
\* the last word of the block and is not stored
C30_ReqspaceFilterSlotAlways ==
  pc # "append" =>
    \A p \in AllBlocks :
       /\ BlockWord(p, 0) = Extent(p)
       /\ BlockWord(p, 0) =
            ReqspaceWith(p, BlockWord(p, 6), BlockWord(p, 7 + BlockWord(p, 6)),
                         FilterWords(p) + 1)
       /\ StoredIn(p, 0) = BlockWord(p, 0) - (IF index.pool.bloomEnabled # 0 THEN 0 ELSE 1)

\* a positional block without Bloom filter and a later block behind it
C30_Witness ==
  /\ pc = "done"
  /\ data.positional = POSITIONAL
  /\ index.pool.bloomEnabled = 0
  /\ \E p \in AllBlocks :
       /\ \E q \in AllBlocks : q = p + BlockWord(p, 0)
       /\ BlockWord(p, 5) = BLOCK_SIZE
       /\ StoredIn(p, 0) = BlockWord(p, 0) - 1


\* ------------------------------------------------------------------ C31
\* C31: every block appended for a term holds between 1 and BLOCK_SIZE
\* docids, and every block but the last appended one of the term holds
\* BLOCK_SIZE, so that at most one block of a term is shorter
C31_BlockLengths ==
  \A t \in TermIds :
     \A i \in 1 .. Len(appended[t]) :
        /\ BlockLen(index.pool, appended[t][i]) \in 1 .. BLOCK_SIZE
        /\ i < Len(appended[t]) => BlockLen(index.pool, appended[t][i]) = BLOCK_SIZE

\* a term dumped with a residual block behind full blocks of a doubled buffer
C31_Witness ==
  /\ pc = "done"
  /\ \E t \in TermIds :
       /\ Len(appended[t]) >= 3
       /\ BlockLen(index.pool, appended[t][Len(appended[t])]) < BLOCK_SIZE


\* ------------------------------------------------------------------ C32
\* C32: the tail pointer of every term refers to the block appended last for
\* the term, after the block-full flushes and after the end-of-stream dump
C32_TailPointer ==
  \A t \in TermIds :
     data.buffer.tailPointer[t] =
        IF appended[t] = << >> THEN UNDEFINED_POINTER
        ELSE appended[t][Len(appended[t])]


\* ------------------------------------------------------------------ C33
\* the term ids of the tokens of a line
TermidsOf(tokens, dictionary) == {dictionary[tokens[n]] : n \in 1 .. Len(tokens)}

\* the step leaves the block at p as it is, word by word
BlockKept(p) ==
  \A i \in 0 .. (BlockReqspace(index.pool, p) - 1) :
     Word(index'.pool, DECODE_SEGMENT(p), DECODE_OFFSET(p) + i)
       = Word(index.pool, DECODE_SEGMENT(p), DECODE_OFFSET(p) + i)

\* the step leaves the counters, pointers, buffers and chain of term t alone
Untouched(t) ==
  /\ index'.pointers.df[t] = index.pointers.df[t]
  /\ index'.pointers.cf[t] = index.pointers.cf[t]
  /\ index'.pointers.headPointers[t] = index.pointers.headPointers[t]
  /\ \A f \in DOMAIN data.buffer : data'.buffer[f][t] = data.buffer[f][t]
  /\ data'.psum[t] = data.psum[t]
  /\ appended'[t] = appended[t]
  /\ \E chain \in {Chain(t)} :
       /\ ChainFrom(index'.pool, index'.pointers.headPointers[t], MaxDocs + 1) = chain
       /\ \A i \in 1 .. Len(chain) : BlockKept(chain[i])

FrameStep ==
  ingested' # ingested =>
    \A t \in TermIds \ TermidsOf(ingested'[Len(ingested')].tokens, index'.dictionary) :
       Untouched(t)

\* C33: processing a document, flushes included, changes df, cf, head and
\* tail pointer, buffers and chain only of the terms of the document; for every
\* other term they and every word of every block of its chain stay as they are
C33_OtherTermsUntouched == [][FrameStep]_vars

\* the last document held one term only and filled and flushed its buffer,
\* while the other term has a chain and docids in its buffer
C33_Witness ==
  /\ pc = "index"
  /\ Len(ingested) > 0
  /\ index.pool.reverse = 0
  /\ \E t \in TermIds, u \in TermIds :
       /\ TermidsOf(ingested[Len(ingested)].tokens, index.dictionary) = {t}
       /\ u # t
       /\ Len(appended[t]) >= 2
       /\ data.buffer.valuePosition[t] = 0
       /\ Len(appended[u]) >= 1
       /\ data.buffer.valuePosition[u] > 0


\* ------------------------------------------------------------------ C34
\* the 1-based positions of the term with id t in a line, increasing
RECURSIVE PositionsIn(_, _, _)
PositionsIn(tokens, t, n) ==
  IF n > Len(tokens) THEN << >>
  ELSE (IF getTermId(index.dictionary, tokens[n]) = t THEN <<n>> ELSE << >>)
         \o PositionsIn(tokens, t, n + 1)

\* the positions of the term with id t in each document of `docs` that
\* contains it
RECURSIVE OccurrencesWith(_, _)
OccurrencesWith(docs, t) ==
  IF docs = << >> THEN << >>
  ELSE (IF TfIn(Head(docs).tokens, t) > 0
          THEN <<PositionsIn(Head(docs).tokens, t, 1)>> ELSE << >>)
         \o OccurrencesWith(Tail(docs), t)

\* the block at p, the k-th appended to its term, gives for each of its
\* documents the positions in occ
PositionsRight(occ, k, p, tf) ==
  \A i \in 0 .. (BlockLen(index.pool, p) - 1) :
     decompressPositions(index.pool, tf, i, p) = occ[(k - 1) * BLOCK_SIZE + i + 1]

\* C34: in a forward positional index, decompressPositions with the tf values
\* of decompressTfBlock gives, for the i-th document of every block, the
\* 1-based positions of the term in that document, in increasing order
C34_PositionsRoundTrip ==
  index.pool.reverse = 0 =>
    \A t \in TermIds :
       \E occ \in {OccurrencesWith(ingested, t)} :
          \A k \in 1 .. Len(appended[t]) :
             PositionsRight(occ, k, appended[t][k],
                            decompressTfBlock(index.pool, appended[t][k]))

\* a block whose second document has its positions in three sub-blocks,
\* starting in the middle of the first of them
C34_Witness ==
  /\ index.pool.reverse = 0
  /\ \E t \in TermIds : \E k \in 1 .. Len(appended[t]) :
       \E tf \in {decompressTfBlock(index.pool, appended[t][k])} :
          /\ Len(tf) = BLOCK_SIZE
          /\ tf[1] % BLOCK_SIZE # 0
          /\ tf[2] > BLOCK_SIZE
          /\ Len(decompressPositions(index.pool, tf, 1, appended[t][k])) = tf[2]


\* ------------------------------------------------------------------ C35
\* a document's positions as the indexer stores them: the first one raw, the
\* later ones as gaps
GapsOf(positions) ==
  [n \in 1 .. Len(positions) |->
     IF n = 1 THEN positions[1] ELSE positions[n] - positions[n - 1]]

\* the gap-encoded positions of the documents occ[from + 1 .. from + n], in
\* document order, or from the last document to the first
RECURSIVE GapsOfDocs(_, _, _, _)
GapsOfDocs(occ, from, n, backwards) ==
  IF n = 0 THEN << >>
  ELSE IF backwards
    THEN GapsOf(occ[from + n]) \o GapsOfDocs(occ, from, n - 1, backwards)
    ELSE GapsOf(occ[from + 1]) \o GapsOfDocs(occ, from + 1, n - 1, backwards)

\* the plen word of the block at p and the plen positions stored behind it
BlockPlen(p) ==
  BlockWord(p, 8 + BlockWord(p, 6) + BlockWord(p, 7 + BlockWord(p, 6)))
BlockPositions(p) ==
  CopyPositions(index.pool, DECODE_SEGMENT(p),
                DECODE_OFFSET(p) + 10 + BlockWord(p, 6) + BlockWord(p, 7 + BlockWord(p, 6)),
                0, (BlockPlen(p) - 1) \div BLOCK_SIZE, 0, BlockPlen(p))

\* the block at p, the k-th appended to its term, was handed the positions of
\* its own documents, as many as their tf values add up to
PositionsHandedOver(occ, k, p) ==
  \E gaps \in {GapsOfDocs(occ, (k - 1) * BLOCK_SIZE, BlockLen(index.pool, p),
                          index.pool.reverse # 0)} :
     /\ BlockPlen(p) = Len(gaps)
     /\ BlockPositions(p) = gaps

\* C35: every block the positional indexer appends, from a single-block or
\* multi-block flush or from the end-of-stream dump, was handed a plen that is
\* the sum of the tf values of its documents and a positions slice that holds
\* exactly those documents' gap-encoded positions in document order
C35_PositionSlices ==
  \A t \in TermIds :
     \E occ \in {OccurrencesWith(ingested, t)} :
        \A k \in 1 .. Len(appended[t]) : PositionsHandedOver(occ, k, appended[t][k])

\* a doubled buffer was flushed as two blocks, the second one with more
\* positions than documents
C35_Witness ==
  /\ pc = "index"
  /\ \E t \in TermIds :
       /\ Len(appended[t]) = 3
       /\ data.buffer.valueLength[t] >= 2 * BLOCK_SIZE
       /\ data.buffer.valuePosition[t] = 0
       /\ BlockPlen(appended[t][3]) > BLOCK_SIZE


\* ------------------------------------------------------------------ C36
\* the orderings of the places 1 .. n of a query
Orderings(n) ==
  {f \in [1 .. n -> 1 .. n] : \A i \in 1 .. n : \A j \in 1 .. n : f[i] = f[j] => i = j}

\* entry i of the call is the head pointer and the df of the term at place
\* f[i] of the query
InOrder(call, f) ==
  \A i \in 1 .. call.qlen :
     /\ call.qHeadPointers[i] = index.pointers.headPointers[call.query[f[i]]]
     /\ call.qdf[i] = index.pointers.df[call.query[f[i]]]

HandedSorted(call) ==
  /\ \E f \in Orderings(call.qlen) : InOrder(call, f)
  /\ \A i \in 1 .. (call.qlen - 1) : call.qdf[i] <= call.qdf[i + 1]

\* C36: SvS, BWAND_AND and BWAND_OR are handed the head pointers and dfs of
\* the query's kept terms as a permutation in non-decreasing df order, entry i
\* of both belonging to one term; WAND and MBWAND are handed them in query
\* order; minimumDf is the smallest df of the query's terms
C36_TermsByDf ==
  pc \in {"queries", "answered"} =>
    \A c \in 1 .. Len(retrieval.calls) :
       \E call \in {retrieval.calls[c]} :
          /\ IF retrieval.algorithm \in {SVS, BWAND_AND, BWAND_OR}
               THEN HandedSorted(call)
               ELSE InOrder(call, [i \in 1 .. call.qlen |-> i])
          /\ \A i \in 1 .. call.qlen : call.minimumDf <= index.pointers.df[call.query[i]]
          /\ \E i \in 1 .. call.qlen : call.minimumDf = index.pointers.df[call.query[i]]

\* SvS on a query with a repeated term and a rarer one behind it, which is
\* handed over first
C36_Witness ==
  /\ pc = "answered"
  /\ retrieval.algorithm = SVS
  /\ \E c \in 1 .. Len(retrieval.calls) :
       \E call \in {retrieval.calls[c]} :
          /\ call.qlen = 3
          /\ call.query[1] = call.query[3]
          /\ index.pointers.df[call.query[2]] < index.pointers.df[call.query[1]]
          /\ call.qHeadPointers[1] = index.pointers.headPointers[call.query[2]]
          /\ call.qHeadPointers[1] # call.qHeadPointers[2]


\* ------------------------------------------------------------------ C37
\* the tf increments of the line for term id stay inside the tf buffer
TfInside(id) ==
  data.positional = TFONLY =>
    data.buffer.valuePosition[id]
      < (IF data.buffer.tf[id] = NULL THEN data.dfCutoff + 1 ELSE Len(data.buffer.tf[id]))

\* the docids counted in df are in the blocks of the term or in its buffer
NoneDropped(t) ==
  index.pointers.df[t] = SumLenOf(index.pool, appended[t]) + data.buffer.valuePosition[t]

AppendsInside ==
  /\ pc' # "killed"
  /\ ingested' # ingested =>
       \A id \in TermidsOf(ingested'[Len(ingested')].tokens, index'.dictionary) :
          /\ ~Overruns(Program, id)
          /\ TfInside(id)
          /\ NoneDropped(id)'

\* C37: for every df cut-off and max_blocks the indexer accepts, a df cut-off
\* of BLOCK_SIZE or more included, process() stores each docid below the
\* capacity of the docid buffer, each tf increment stays inside the tf buffer,
\* and no docid is dropped by a flush
C37_AppendsInside == [][AppendsInside]_vars


\* ------------------------------------------------------------------ C38
\* a step that grows the table has stored its vector inside the grown table,
\* leaves a length array of the new capacity, keeps the vectors stored before
\* and their lengths, and leaves the other new slots empty
GrowthStep ==
  /\ pc' # "killed"
  /\ index'.vectors.capacity # index.vectors.capacity =>
       /\ ingested' # ingested
       /\ Len(index'.vectors.length) = index'.vectors.capacity
       /\ \A k \in DOMAIN ingested :
            /\ index'.vectors.document[k + 1] = index.vectors.document[k + 1]
            /\ At(index'.vectors.length, k) = At(index.vectors.length, k)
       /\ \A j \in index.vectors.capacity .. (index'.vectors.capacity - 1) :
            j \notin DOMAIN ingested' =>
               /\ index'.vectors.document[j + 1] = NULL
               /\ At(index'.vectors.length, j) = 0

\* C38: addDocumentVector for a docid k at or beyond the capacity grows the
\* table so that k is below the capacity when the vector is stored, and the
\* growth keeps every stored vector and its length, with a valid length array
\* and empty new slots
C38_GrowthKeepsVectors == [][GrowthStep]_vars


\* ------------------------------------------------------------------ C39
\* C39: in a pool returned by readSegmentPool numberOfPools is the number of
\* arenas allocated, segment + 1, so that destroySegmentPool frees exactly
\* the arenas 0 .. segment
C39_PoolReadInitialised ==
  pc = "loaded" =>
    /\ retrieval.pool.numberOfPools = retrieval.pool.segment + 1
    /\ destroySegmentPool(retrieval.pool) = 0 .. retrieval.pool.segment


\* ------------------------------------------------------------------ C40
\* a step that reads the postings of a term whose head pointer is
\* UNDEFINED_POINTER leaves the destination pool as it was and stores
\* UNDEFINED_POINTER as the term's head
EmptyReadStep ==
  \A t \in TermIds :
    (/\ pc = "open" /\ pc' = "open"
     /\ retrieval'.read = Append(retrieval.read, t)
     /\ index.pointers.headPointers[t] = UNDEFINED_POINTER) =>
       /\ retrieval'.pool = retrieval.pool
       /\ retrieval'.heads[t] = UNDEFINED_POINTER

\* C40: readPostingsForTerm called with the head UNDEFINED_POINTER copies
\* nothing, leaves the destination pool (cursor and words) unchanged and
\* returns UNDEFINED_POINTER
C40_UndefinedHeadReadsEmpty == [][EmptyReadStep]_vars

=============================================================================
